---- MODULE Spec2Model ----
(***************************************************************************)
(* SQL to Prisma schema converter: SQLParser.parseSQL (sql-parser.ts),     *)
(* PrismaGenerator.generatePrismaSchema (prisma-generator.ts) and the      *)
(* convertSQLToPrisma handler of the converter page.                       *)
(*                                                                         *)
(* Texts are TLA+ strings and are processed character by character, as the *)
(* JavaScript string and RegExp operations of the source process them.     *)
(* undefined of an optional string is written "" (the source only tests    *)
(* such values for truthiness, and no capture it stores is ever empty);    *)
(* a null result is the record NoMatch.                                    *)
(***************************************************************************)
EXTENDS Integers, Sequences, FiniteSets, TLC

VARIABLES sqlInput, parseResult, models, relationCounter, prismaOutput,
          conversionStatus, tablesConverted, runs,
          timers, timeout, changes, quiet, calls

vars == <<sqlInput, parseResult, models, relationCounter, prismaOutput,
          conversionStatus, tablesConverted, runs,
          timers, timeout, changes, quiet, calls>>

(***************************************************************************)
(* JavaScript string primitives                                            *)
(***************************************************************************)

Min(S) == CHOOSE m \in S : \A o \in S : m <= o

Max(S) == CHOOSE m \in S : \A o \in S : m >= o

\* s.charAt(i - 1): the i-th character (1-based), "" outside the string
CharAt(s, i) == IF i >= 1 /\ i <= Len(s) THEN SubSeq(s, i, i) ELSE ""

\* s.slice(a - 1, b): the characters a..b (1-based, inclusive), clamped
Slice(s, a, b) ==
    LET lo == IF a < 1 THEN 1 ELSE a
        hi == IF b > Len(s) THEN Len(s) ELSE b
    IN  IF lo > hi THEN "" ELSE SubSeq(s, lo, hi)

LowerLetters == "abcdefghijklmnopqrstuvwxyz"

UpperLetters == "ABCDEFGHIJKLMNOPQRSTUVWXYZ"

Digits == "0123456789"

UpperOf == [c \in {SubSeq(LowerLetters, i, i) : i \in 1..26} |->
              LET i == CHOOSE j \in 1..26 : SubSeq(LowerLetters, j, j) = c
              IN  SubSeq(UpperLetters, i, i)]

LowerOf == [c \in {SubSeq(UpperLetters, i, i) : i \in 1..26} |->
              LET i == CHOOSE j \in 1..26 : SubSeq(UpperLetters, j, j) = c
              IN  SubSeq(LowerLetters, i, i)]

DigitChars == {SubSeq(Digits, i, i) : i \in 1..10}

\* \w of a RegExp: [A-Za-z0-9_]
WordChars == DOMAIN UpperOf \cup DOMAIN LowerOf \cup DigitChars \cup {"_"}

\* \s of a RegExp
SpaceChars == {" ", "\t", "\n"}

IsWordChar(c) == c \in WordChars

IsSpace(c) == c \in SpaceChars

\* the strings of a sequence joined, by halving (the recursion depth stays
\* logarithmic in the number of pieces)
RECURSIVE ConcatRange(_, _, _)
ConcatRange(pieces, lo, hi) ==
    IF lo > hi THEN ""
    ELSE IF lo = hi THEN pieces[lo]
    ELSE LET mid == (lo + hi) \div 2
         IN  ConcatRange(pieces, lo, mid) \o ConcatRange(pieces, mid + 1, hi)

\* the array of the elements elements[1], elements[2], ..: each element is
\* computed once, when the array is built
Array(elements) == elements \o <<>>

Concat(pieces) == ConcatRange(pieces, 1, Len(pieces))

\* pieces.join(sep)
Join(pieces, sep) ==
    IF Len(pieces) = 0 THEN ""
    ELSE Concat(Array([k \in 1..(2 * Len(pieces) - 1) |->
                          IF k % 2 = 1 THEN pieces[(k + 1) \div 2] ELSE sep]))

\* a text taken in the case it is written in: what C22 tells from the
\* source's upper-casing of the clause and of the type
caseKept(s) == s

\* s.toUpperCase()
toUpperCase(s) ==
    Concat(Array([i \in 1..Len(s) |->
                    LET c == SubSeq(s, i, i)
                    IN  IF c \in DOMAIN UpperOf THEN UpperOf[c] ELSE c]))

\* s.toLowerCase()
toLowerCase(s) ==
    Concat(Array([i \in 1..Len(s) |->
                    LET c == SubSeq(s, i, i)
                    IN  IF c \in DOMAIN LowerOf THEN LowerOf[c] ELSE c]))

\* the 1-based positions at which sub occurs in s
Occurrences(s, sub) ==
    IF Len(sub) = 0 \/ Len(sub) > Len(s) THEN {}
    ELSE {i \in 1..(Len(s) - Len(sub) + 1) : SubSeq(s, i, i + Len(sub) - 1) = sub}

\* s.includes(sub)
Includes(s, sub) == sub = "" \/ Occurrences(s, sub) # {}

\* s.indexOf(sub, from - 1) + 1: the first occurrence at or after from, 0 if none
IndexOf(s, sub, from) ==
    LET first(occ) == IF occ = {} THEN 0 ELSE Min(occ)
    IN  first({i \in Occurrences(s, sub) : i >= from})

\* s.startsWith(prefix)
StartsWith(s, prefix) ==
    Len(prefix) <= Len(s) /\ (prefix = "" \/ SubSeq(s, 1, Len(prefix)) = prefix)

\* s.endsWith(suffix)
EndsWith(s, suffix) ==
    /\ Len(suffix) <= Len(s)
    /\ (suffix = "" \/ SubSeq(s, Len(s) - Len(suffix) + 1, Len(s)) = suffix)

\* s.trim()
Trim(s) ==
    LET between(solid) == IF solid = {} THEN "" ELSE SubSeq(s, Min(solid), Max(solid))
    IN  between({i \in 1..Len(s) : ~IsSpace(SubSeq(s, i, i))})

\* the elements of a finite set of integers in increasing order
SortedSeq(S) ==
    Array([k \in 1..Cardinality(S) |->
             CHOOSE p \in S : Cardinality({q \in S : q < p}) = k - 1])

\* the segments of s between the cut positions (the cut characters are
\* dropped); there is always at least one segment
SegmentsAt(s, cuts) ==
    LET between(cs) ==
            Array([k \in 1..(Len(cs) + 1) |->
                     Slice(s, (IF k = 1 THEN 1 ELSE cs[k - 1] + 1),
                              (IF k = Len(cs) + 1 THEN Len(s) ELSE cs[k] - 1))])
    IN  between(SortedSeq(cuts))

\* s.split(sep) for a one-character separator
Split(s, sep) == SegmentsAt(s, Occurrences(s, sep))

\* seq.filter(keep), for a sequence and the set of the indices to keep
FilterIndices(seq, keep) ==
    LET kept(ks) == Array([k \in 1..Len(ks) |-> seq[ks[k]]])
    IN  kept(SortedSeq(keep))

\* the first position at or after i that holds no white space (Len(s) + 1
\* when there is none): where \s* started at i ends
SkipSpaces(s, i) ==
    Min({j \in i..(Len(s) + 1) : j = Len(s) + 1 \/ ~IsSpace(SubSeq(s, j, j))})

\* the first position at or after i that holds no word character: where a
\* greedy \w* started at i ends
SkipWord(s, i) ==
    Min({j \in i..(Len(s) + 1) : j = Len(s) + 1 \/ ~IsWordChar(SubSeq(s, j, j))})

\* the first position at or after i that holds the character c (Len(s) + 1
\* when there is none): where a greedy [^c]* started at i ends
SkipUntil(s, i, c) ==
    Min({j \in i..(Len(s) + 1) : j = Len(s) + 1 \/ SubSeq(s, j, j) = c})

\* parseInt of a string of decimal digits
RECURSIVE parseInt(_)
parseInt(s) ==
    IF s = "" THEN 0
    ELSE 10 * parseInt(SubSeq(s, 1, Len(s) - 1))
         + (CHOOSE d \in 0..9 : SubSeq(Digits, d + 1, d + 1) = SubSeq(s, Len(s), Len(s)))

(***************************************************************************)
(* RegExp building blocks.  A matcher started at position i yields the     *)
(* position after the match, or 0 when it fails.  u is the upper-cased     *)
(* text: the /i flag of a pattern only concerns its literal keywords.      *)
(***************************************************************************)

NoMatch == [matched |-> FALSE]

\* a literal keyword at position i
Keyword(u, i, kw) ==
    IF i >= 1 /\ Slice(u, i, i + Len(kw) - 1) = kw THEN i + Len(kw) ELSE 0

\* \s+ at position i
Spaces1(s, i) == IF i >= 1 /\ IsSpace(CharAt(s, i)) THEN SkipSpaces(s, i) ELSE 0

\* \s* at position i
Spaces0(s, i) == IF i >= 1 THEN SkipSpaces(s, i) ELSE 0

\* keywords separated by \s+, e.g. CREATE\s+TABLE, started at position i
RECURSIVE Keywords(_, _, _, _)
Keywords(s, u, i, kws) ==
    IF kws = <<>> \/ i = 0 THEN i
    ELSE LET after == Keyword(u, i, Head(kws))
         IN  IF Len(kws) = 1 THEN after
             ELSE Keywords(s, u, Spaces1(s, after), Tail(kws))

\* (?:"([^"]+)"|(\w+)) at position i: the identifier and the position after it
MatchIdentifier(s, i) ==
    LET quotedUpTo(close) ==
            IF close <= Len(s) /\ close > i + 1
            THEN [matched |-> TRUE, text |-> Slice(s, i + 1, close - 1), next |-> close + 1]
            ELSE NoMatch
        wordUpTo(end) ==
            IF end > i
            THEN [matched |-> TRUE, text |-> Slice(s, i, end - 1), next |-> end]
            ELSE NoMatch
    IN  IF i < 1 THEN NoMatch
        ELSE IF CharAt(s, i) = "\"" THEN quotedUpTo(SkipUntil(s, i + 1, "\""))
        ELSE wordUpTo(SkipWord(s, i))

\* \(\s*([^)]+)\s*\) at position i: the captured text (leading white space
\* left out: every use trims it) and the position after the closing parenthesis
MatchParenthesized(s, i) ==
    LET upTo(close) ==
            IF close <= Len(s) /\ close > i + 1
            THEN [matched |-> TRUE,
                  text    |-> Slice(s, SkipSpaces(s, i + 1), close - 1),
                  next    |-> close + 1]
            ELSE NoMatch
    IN  IF i < 1 \/ CharAt(s, i) # "(" THEN NoMatch
        ELSE upTo(SkipUntil(s, i + 1, ")"))

\* String.prototype.match with an unanchored pattern: of the outcomes of the
\* pattern at each candidate start, the one at the leftmost start where it
\* succeeds
FirstMatch(outcomes) ==
    LET leftmost(hits) == IF hits = {} THEN NoMatch ELSE outcomes[Min(hits)]
    IN  leftmost({i \in DOMAIN outcomes : outcomes[i].matched})

(***************************************************************************)
(* SQLParser (sql-parser.ts)                                               *)
(***************************************************************************)

\* sql.replace(/--.*$/gm, ''): each line is cut at its first "--"
removeLineComments(sql) ==
    LET cut(line, at) == IF at = 0 THEN line ELSE Slice(line, 1, at - 1)
        cutAll(lines) ==
            Join(Array([k \in 1..Len(lines) |->
                          cut(lines[k], IndexOf(lines[k], "--", 1))]), "\n")
    IN  cutAll(Split(sql, "\n"))

\* sql.replace(/\/\*[\s\S]*?\*\//g, ''): each "/*" is removed up to the
\* first "*/" that follows it; an unclosed "/*" stays
RECURSIVE removeBlockComments(_)
removeBlockComments(sql) ==
    LET without(open, close) ==
            Slice(sql, 1, open - 1)
            \o removeBlockComments(Slice(sql, close + 2, Len(sql)))
        from(open) == without(open, IndexOf(sql, "*/", open + 2))
        firstOf(opens) == IF opens = {} THEN sql ELSE from(Min(opens))
    IN  firstOf({o \in Occurrences(sql, "/*") : IndexOf(sql, "*/", o + 2) # 0})

\* sql.replace(/\s+/g, ' ')
normalizeWhitespace(sql) ==
    Concat(Array([i \in 1..Len(sql) |->
                    IF ~IsSpace(SubSeq(sql, i, i)) THEN SubSeq(sql, i, i)
                    ELSE IF i > 1 /\ IsSpace(SubSeq(sql, i - 1, i - 1)) THEN ""
                    ELSE " "]))

cleanSQL(sql) == Trim(normalizeWhitespace(removeBlockComments(removeLineComments(sql))))

\* cleanedSQL.split(';').filter(stmt => stmt.trim())
splitStatements(cleanedSQL) ==
    LET nonBlank(pieces) ==
            FilterIndices(pieces, {k \in 1..Len(pieces) : Trim(pieces[k]) # ""})
    IN  nonBlank(Split(cleanedSQL, ";"))

\* the values of an enum: split on commas, trimmed, one pair of surrounding
\* quotes removed, empty values dropped
parseEnumValues(valuesString) ==
    LET unquoted(trimmed) ==
            IF \/ (StartsWith(trimmed, "'") /\ EndsWith(trimmed, "'"))
               \/ (StartsWith(trimmed, "\"") /\ EndsWith(trimmed, "\""))
            THEN Slice(trimmed, 2, Len(trimmed) - 1)
            ELSE trimmed
        nonEmpty(value) == FilterIndices(value, {k \in 1..Len(value) : Len(value[k]) > 0})
        values(raw) == nonEmpty(Array([k \in 1..Len(raw) |-> unquoted(Trim(raw[k]))]))
    IN  values(Split(valuesString, ","))

\* /CREATE\s+TYPE\s+(?:"([^"]+)"|(\w+))\s+AS\s+ENUM\s*\(\s*([^)]+)\s*\)/i at i
enumMatchAt(s, u, i) ==
    LET result(name, values) ==
            IF values.matched
            THEN [matched |-> TRUE, name |-> name.text, values |-> values.text]
            ELSE NoMatch
        named(name) ==
            IF name.matched
            THEN result(name,
                        MatchParenthesized(s, Spaces0(s,
                            Keywords(s, u, Spaces1(s, name.next), <<"AS", "ENUM">>))))
            ELSE NoMatch
    IN  named(MatchIdentifier(s, Spaces1(s, Keywords(s, u, i, <<"CREATE", "TYPE">>))))

parseCreateEnum(statement) ==
    LET enumOf(enumMatch) ==
            IF ~enumMatch.matched THEN NoMatch
            ELSE [matched |-> TRUE,
                  name    |-> enumMatch.name,
                  values  |-> parseEnumValues(enumMatch.values)]
        matchIn(u) ==
            enumOf(FirstMatch([i \in Occurrences(u, "CREATE") |->
                                 enumMatchAt(statement, u, i)]))
    IN  matchIn(toUpperCase(statement))

\* the parenthesis depth the loop of splitByCommas has reached when it reads
\* the character at position i
depthBefore(content, i) ==
    Cardinality({o \in Occurrences(content, "(") : o < i})
    - Cardinality({c \in Occurrences(content, ")") : c < i})

\* a split at every comma, whatever the parenthesis depth: what C20 tells
\* from the source's
splitAtEveryComma(content) ==
    LET pushed(parts) ==
            IF parts[Len(parts)] # "" THEN parts ELSE SubSeq(parts, 1, Len(parts) - 1)
        trimmedAll(segs) == pushed(Array([k \in 1..Len(segs) |-> Trim(segs[k])]))
    IN  trimmedAll(Split(content, ","))

\* splitByCommas: a part ends at every comma read at depth zero and is pushed
\* trimmed; what follows the last such comma is pushed only if it is not blank
splitByCommas(content) ==
    LET pushed(parts) ==
            IF parts[Len(parts)] # "" THEN parts ELSE SubSeq(parts, 1, Len(parts) - 1)
        trimmedAll(segs) == pushed(Array([k \in 1..Len(segs) |-> Trim(segs[k])]))
    IN  trimmedAll(SegmentsAt(content,
            {i \in Occurrences(content, ",") : depthBefore(content, i) = 0}))

\* /^("([^"]+)"|\w+)\s+/.test(part)
startsWithColumnIdentifier(part) ==
    LET spaced(ident) == ident.matched /\ Spaces1(part, ident.next) # 0
    IN  spaced(MatchIdentifier(part, 1))

isConstraintDefinition(part) ==
    LET keyed(upper) ==
            \/ Includes(upper, "PRIMARY KEY")
            \/ Includes(upper, "FOREIGN KEY")
            \/ Includes(upper, "UNIQUE")
            \/ Includes(upper, "CHECK")
    IN  keyed(toUpperCase(part)) /\ ~startsWithColumnIdentifier(part)

parseIdentifier(identifier) ==
    IF StartsWith(identifier, "\"") /\ EndsWith(identifier, "\"")
    THEN Slice(identifier, 2, Len(identifier) - 1)
    ELSE identifier

\* list.split(',').map(col => col.trim())
splitTrimmed(list) ==
    LET trimmedAll(raw) == Array([k \in 1..Len(raw) |-> Trim(raw[k])])
    IN  trimmedAll(Split(list, ","))

\* type.match(/(\w+)\((\d+)\)/): a word directly followed by "(digits)"
lengthMatchAt(type, i) ==
    LET result(end, stop) ==
            IF /\ end > i
               /\ CharAt(type, end) = "("
               /\ stop > end + 1
               /\ CharAt(type, stop) = ")"
            THEN [matched |-> TRUE,
                  type    |-> Slice(type, i, end - 1),
                  length  |-> parseInt(Slice(type, end + 1, stop - 1))]
            ELSE NoMatch
        \* where the digits after the character at end stop
        wordUpTo(end) ==
            result(end, Min({j \in (end + 1)..(Len(type) + 1) :
                               j = Len(type) + 1 \/ CharAt(type, j) \notin DigitChars}))
    IN  wordUpTo(SkipWord(type, i))

\* /DEFAULT\s+((?:\([^)]*(?:\([^)]*\)[^)]*)*\)(?:::\w+)?)|(?:[^,\s]+))/i at i.
\* In the first alternative [^)]* runs to the first ")" and \) takes it, so
\* that alternative is "(" up to the first ")" plus an optional ::word cast;
\* the second alternative runs to the next comma or white space.
defaultMatchAt(s, u, i) ==
    LET castEnd(close, word) ==
            IF Slice(s, close + 1, close + 2) = "::" /\ word > close + 3
            THEN word - 1
            ELSE close
        result(start, close, stop) ==
            IF start = 0 THEN NoMatch
            ELSE IF CharAt(s, start) = "(" /\ close <= Len(s)
            THEN [matched |-> TRUE,
                  text    |-> Slice(s, start, castEnd(close, SkipWord(s, close + 3)))]
            ELSE IF stop > start
            THEN [matched |-> TRUE, text |-> Slice(s, start, stop - 1)]
            ELSE NoMatch
        from(start) ==
            result(start, SkipUntil(s, start + 1, ")"),
                   Min({j \in start..(Len(s) + 1) :
                          j = Len(s) + 1 \/ CharAt(s, j) = "," \/ IsSpace(CharAt(s, j))}))
    IN  from(Spaces1(s, Keyword(u, i, "DEFAULT")))

\* an SQLConstraint; a PRIMARY KEY constraint has no referencedTable ("") and
\* no referencedColumns
SQLConstraint(type, columns, referencedTable, referencedColumns) ==
    [type              |-> type,
     columns           |-> columns,
     referencedTable   |-> referencedTable,
     referencedColumns |-> referencedColumns]

\* /REFERENCES\s+(?:"([^"]+)"|(\w+))\s*\(\s*([^)]+)\s*\)/i at i
referencesMatchAt(s, u, i) ==
    LET result(table, columns) ==
            IF columns.matched
            THEN [matched |-> TRUE, table |-> table.text, columns |-> columns.text]
            ELSE NoMatch
        named(table) ==
            IF table.matched
            THEN result(table, MatchParenthesized(s, Spaces0(s, table.next)))
            ELSE NoMatch
    IN  named(MatchIdentifier(s, Spaces1(s, Keyword(u, i, "REFERENCES"))))

\* an enum test that compares the names as written: what C7 tells from the
\* source's
isEnumTypeAsWritten(type, enums) ==
    \E k \in 1..Len(enums) : enums[k].name = type

\* enums.some(enumDef => enumDef.name.toLowerCase() === type.toLowerCase())
isEnumType(type, enums) ==
    \E k \in 1..Len(enums) : toLowerCase(enums[k].name) = toLowerCase(type)

\* the first part of parseColumn: the name of the column and what follows it
\* (NoMatch where the source returns null)
columnHead(trimmed) ==
    LET quotedUpTo(endQuote) ==
            IF endQuote = 0 THEN NoMatch
            ELSE [matched      |-> TRUE,
                  name         |-> Slice(trimmed, 2, endQuote - 1),
                  remainingDef |-> Trim(Slice(trimmed, endQuote + 1, Len(trimmed)))]
        wordUpTo(spaceIndex) ==
            IF spaceIndex = 0 THEN NoMatch
            ELSE [matched      |-> TRUE,
                  name         |-> Slice(trimmed, 1, spaceIndex - 1),
                  remainingDef |-> Trim(Slice(trimmed, spaceIndex + 1, Len(trimmed)))]
    IN  IF StartsWith(trimmed, "\"")
        THEN quotedUpTo(IndexOf(trimmed, "\"", 2))
        ELSE wordUpTo(IndexOf(trimmed, " ", 1))

\* remainingDef.split(/\s+/)[0]
firstPart(remainingDef) ==
    Slice(remainingDef, 1,
          Min({j \in 1..(Len(remainingDef) + 1) :
                 j = Len(remainingDef) + 1 \/ IsSpace(CharAt(remainingDef, j))}) - 1)

\* the type and the length parseColumn makes of parts[0]
declaredType(type) ==
    LET from(lengthMatch) ==
            IF lengthMatch.matched
            THEN [type |-> lengthMatch.type, length |-> <<lengthMatch.length>>]
            ELSE [type |-> type, length |-> <<>>]
    IN  from(FirstMatch([i \in {j \in 1..Len(type) : IsWordChar(CharAt(type, j))} |->
                           lengthMatchAt(type, i)]))

\* the type of an IDENTITY column is taken for a serial type
identityType(type, isIdentity) ==
    IF isIdentity /\ toUpperCase(type) = "INTEGER" THEN "SERIAL"
    ELSE IF isIdentity /\ toUpperCase(type) = "BIGINT" THEN "BIGSERIAL"
    ELSE type

\* the FOREIGN KEY constraint an inline REFERENCES of the column name pushes
\* on the table's constraints (NoMatch if there is none)
inlineForeignKey(columnDef, upperDef, name) ==
    LET identifiers(referenced) ==
            Array([k \in 1..Len(referenced) |-> parseIdentifier(Trim(referenced[k]))])
        constraintOf(referencesMatch) ==
            IF referencesMatch.matched
            THEN [matched    |-> TRUE,
                  constraint |-> SQLConstraint("FOREIGN KEY", <<name>>,
                                     referencesMatch.table,
                                     identifiers(Split(referencesMatch.columns, ",")))]
            ELSE NoMatch
    IN  constraintOf(FirstMatch([i \in Occurrences(upperDef, "REFERENCES") |->
                                   referencesMatchAt(columnDef, upperDef, i)]))

\* parseColumn: the column of a column clause, and the FOREIGN KEY constraint
\* an inline REFERENCES pushes on the table's constraints (NoMatch if none);
\* the whole result is NoMatch where the source returns null
parseColumn(columnDef, enums) ==
    LET column(name, declared, isEnum, upperDef, isPrimaryKey, type, defaultMatch) ==
            [name         |-> name,
             type         |-> IF isEnum THEN type ELSE toUpperCase(type),
             nullable     |-> ~Includes(upperDef, "NOT NULL") /\ ~isPrimaryKey,
             defaultValue |-> IF defaultMatch.matched THEN defaultMatch.text ELSE "",
             isPrimaryKey |-> isPrimaryKey,
             isUnique     |-> Includes(upperDef, "UNIQUE") \/ isPrimaryKey,
             length       |-> declared.length,
             isEnum       |-> isEnum]
        typed(name, declared, upperDef) ==
            [matched    |-> TRUE,
             column     |->
                 column(name, declared, isEnumType(declared.type, enums), upperDef,
                        Includes(upperDef, "PRIMARY KEY"),
                        identityType(declared.type,
                            \/ Includes(upperDef, "GENERATED BY DEFAULT AS IDENTITY")
                            \/ Includes(upperDef, "GENERATED ALWAYS AS IDENTITY")),
                        FirstMatch([i \in Occurrences(upperDef, "DEFAULT") |->
                                      defaultMatchAt(columnDef, upperDef, i)])),
             foreignKey |-> inlineForeignKey(columnDef, upperDef, name)]
        headed(head) ==
            IF ~head.matched THEN NoMatch
            ELSE typed(head.name, declaredType(firstPart(head.remainingDef)),
                       toUpperCase(columnDef))
    IN  headed(columnHead(Trim(columnDef)))

\* /PRIMARY\s+KEY\s*\(\s*([^)]+)\s*\)/i at i
primaryKeyMatchAt(s, u, i) ==
    MatchParenthesized(s, Spaces0(s, Keywords(s, u, i, <<"PRIMARY", "KEY">>)))

\* /FOREIGN\s+KEY\s*\(\s*([^)]+)\s*\)\s*REFERENCES\s+(\w+)\s*\(\s*([^)]+)\s*\)/i at i
foreignKeyMatchAt(s, u, i) ==
    LET result(columns, table, tableEnd, referenced) ==
            IF columns.matched /\ referenced.matched
            THEN [matched    |-> TRUE,
                  columns    |-> columns.text,
                  table      |-> Slice(s, table, tableEnd - 1),
                  referenced |-> referenced.text]
            ELSE NoMatch
        tableUpTo(columns, table, tableEnd) ==
            result(columns, table, tableEnd,
                   IF tableEnd > table
                   THEN MatchParenthesized(s, Spaces0(s, tableEnd))
                   ELSE NoMatch)
        tableAt(columns, table) ==
            tableUpTo(columns, table, IF table = 0 THEN 0 ELSE SkipWord(s, table))
        keyed(columns) ==
            tableAt(columns,
                    IF columns.matched
                    THEN Spaces1(s, Keyword(u, Spaces0(s, columns.next), "REFERENCES"))
                    ELSE 0)
    IN  keyed(MatchParenthesized(s, Spaces0(s, Keywords(s, u, i, <<"FOREIGN", "KEY">>))))

parseConstraint(constraintDef) ==
    LET foreignKey(fkMatch) ==
            IF fkMatch.matched
            THEN [matched    |-> TRUE,
                  constraint |-> SQLConstraint("FOREIGN KEY",
                                     splitTrimmed(fkMatch.columns), fkMatch.table,
                                     splitTrimmed(fkMatch.referenced))]
            ELSE NoMatch
        tryForeignKey(upper) ==
            IF Includes(upper, "FOREIGN KEY")
            THEN foreignKey(FirstMatch([i \in Occurrences(upper, "FOREIGN") |->
                                          foreignKeyMatchAt(constraintDef, upper, i)]))
            ELSE NoMatch
        primaryKey(upper, columnsMatch) ==
            IF columnsMatch.matched
            THEN [matched    |-> TRUE,
                  constraint |-> SQLConstraint("PRIMARY KEY",
                                     splitTrimmed(columnsMatch.text), "", <<>>)]
            ELSE tryForeignKey(upper)
        tryPrimaryKey(upper) ==
            IF Includes(upper, "PRIMARY KEY")
            THEN primaryKey(upper, FirstMatch([i \in Occurrences(upper, "PRIMARY") |->
                                                 primaryKeyMatchAt(constraintDef, upper, i)]))
            ELSE tryForeignKey(upper)
    IN  tryPrimaryKey(toUpperCase(constraintDef))

\* /CREATE\s+TABLE\s+(?:"([^"]+)"|(\w+))\s*\(/i at i
tableNameMatchAt(s, u, i) ==
    LET opened(name) ==
            IF name.matched /\ CharAt(s, SkipSpaces(s, name.next)) = "("
            THEN [matched |-> TRUE, name |-> name.text]
            ELSE NoMatch
    IN  opened(MatchIdentifier(s, Spaces1(s, Keywords(s, u, i, <<"CREATE", "TABLE">>))))

\* statement.match(/\(([\s\S]*)\)/): from the first "(" to the last ")"
contentMatch(statement) ==
    LET within(open, closes) ==
            IF open = 0 \/ closes = {} THEN NoMatch
            ELSE [matched |-> TRUE,
                  content |-> Slice(statement, open + 1, Max(closes) - 1)]
        from(open) == within(open, {c \in Occurrences(statement, ")") : c > open})
    IN  from(IndexOf(statement, "(", 1))

\* the loop of parseCreateTable over the parts: the columns and the
\* constraints collected from parts[k..], appended to those collected so far
RECURSIVE parseParts(_, _, _, _, _)
parseParts(parts, k, enums, columns, constraints) ==
    LET withConstraint(constraint) ==
            parseParts(parts, k + 1, enums, columns,
                       IF constraint.matched
                       THEN Append(constraints, constraint.constraint)
                       ELSE constraints)
        withColumn(parsed) ==
            parseParts(parts, k + 1, enums,
                       IF parsed.matched THEN Append(columns, parsed.column) ELSE columns,
                       IF parsed.matched /\ parsed.foreignKey.matched
                       THEN Append(constraints, parsed.foreignKey.constraint)
                       ELSE constraints)
        part(trimmed) ==
            IF isConstraintDefinition(trimmed)
            THEN withConstraint(parseConstraint(trimmed))
            ELSE withColumn(parseColumn(trimmed, enums))
    IN  IF k > Len(parts) THEN [columns |-> columns, constraints |-> constraints]
        ELSE part(Trim(parts[k]))

parseCreateTable(statement, enums) ==
    LET table(name, body) ==
            [matched     |-> TRUE,
             name        |-> name,
             columns     |-> body.columns,
             constraints |-> body.constraints]
        matches(tableNameMatch, content) ==
            IF ~tableNameMatch.matched \/ ~content.matched THEN NoMatch
            ELSE table(tableNameMatch.name,
                       parseParts(splitByCommas(content.content), 1, enums, <<>>, <<>>))
        matchIn(u) ==
            matches(FirstMatch([i \in Occurrences(u, "CREATE") |->
                                  tableNameMatchAt(statement, u, i)]),
                    contentMatch(statement))
    IN  matchIn(toUpperCase(statement))

\* the pattern of parseAlterTableForeignKey at i: ALTER TABLE t ADD
\* [CONSTRAINT n] FOREIGN KEY (c) REFERENCES r (rc)
alterMatchAt(s, u, i) ==
    LET result(table, column, ref, refcol) ==
            IF refcol.matched /\ CharAt(s, SkipSpaces(s, refcol.next)) = ")"
            THEN [matched |-> TRUE,
                  alterTableName      |-> table.text,
                  foreignKeyColumn    |-> column.text,
                  referencedTableName |-> ref.text,
                  referencedColumn    |-> refcol.text]
            ELSE NoMatch
        \* open: where "(" of the referenced column is expected
        referencedAt(table, column, ref, open) ==
            result(table, column, ref,
                   IF open # 0 /\ CharAt(s, open) = "("
                   THEN MatchIdentifier(s, SkipSpaces(s, open + 1))
                   ELSE NoMatch)
        referencing(table, column, ref) ==
            referencedAt(table, column, ref,
                         IF ref.matched THEN SkipSpaces(s, ref.next) ELSE 0)
        \* close: where ")" of the foreign key column is expected
        closedAt(table, column, close) ==
            referencing(table, column,
                        IF close # 0 /\ CharAt(s, close) = ")"
                        THEN MatchIdentifier(s, Spaces1(s,
                                 Keyword(u, Spaces1(s, close + 1), "REFERENCES")))
                        ELSE NoMatch)
        ofColumn(table, column) ==
            closedAt(table, column,
                     IF column.matched THEN SkipSpaces(s, column.next) ELSE 0)
        \* fk: where "(" of the foreign key column is expected
        keyAt(table, fk) ==
            ofColumn(table,
                     IF fk # 0 /\ CharAt(s, fk) = "("
                     THEN MatchIdentifier(s, SkipSpaces(s, fk + 1))
                     ELSE NoMatch)
        \* named: the position after an optional CONSTRAINT name, 0 without one
        constraintAt(table, add, named) ==
            keyAt(table, Spaces0(s, Keywords(s, u, IF named # 0 THEN named ELSE add,
                                             <<"FOREIGN", "KEY">>)))
        constraintNamed(table, add, cname) ==
            constraintAt(table, add, IF cname.matched THEN Spaces1(s, cname.next) ELSE 0)
        \* add: the position after ADD and its white space
        addAt(table, add) ==
            constraintNamed(table, add,
                            MatchIdentifier(s, Spaces1(s, Keyword(u, add, "CONSTRAINT"))))
        altered(table) ==
            addAt(table,
                  IF table.matched
                  THEN Spaces1(s, Keyword(u, Spaces1(s, table.next), "ADD"))
                  ELSE 0)
    IN  altered(MatchIdentifier(s, Spaces1(s, Keywords(s, u, i, <<"ALTER", "TABLE">>))))

\* an ALTER TABLE handling that pushes the constraint on the referenced
\* table: what C12 tells from the source's
parseAlterTableForeignKeyOnReferenced(statement, tables) ==
    LET added(fkMatch, found) ==
            IF found = {} THEN tables
            ELSE [tables EXCEPT ![Min(found)].constraints =
                     Append(@, SQLConstraint("FOREIGN KEY",
                                   <<fkMatch.foreignKeyColumn>>,
                                   fkMatch.referencedTableName,
                                   <<fkMatch.referencedColumn>>))]
        applied(fkMatch) ==
            IF ~fkMatch.matched THEN tables
            ELSE added(fkMatch,
                       {k \in 1..Len(tables) :
                          tables[k].name = fkMatch.referencedTableName})
        matchIn(u) ==
            applied(FirstMatch([i \in Occurrences(u, "ALTER") |->
                                  alterMatchAt(statement, u, i)]))
    IN  matchIn(toUpperCase(statement))

\* parseAlterTableForeignKey: the tables after the statement was handled
parseAlterTableForeignKey(statement, tables) ==
    LET added(fkMatch, found) ==
            IF found = {} THEN tables
            ELSE [tables EXCEPT ![Min(found)].constraints =
                     Append(@, SQLConstraint("FOREIGN KEY",
                                   <<fkMatch.foreignKeyColumn>>,
                                   fkMatch.referencedTableName,
                                   <<fkMatch.referencedColumn>>))]
        applied(fkMatch) ==
            IF ~fkMatch.matched THEN tables
            ELSE added(fkMatch,
                       {k \in 1..Len(tables) : tables[k].name = fkMatch.alterTableName})
        matchIn(u) ==
            applied(FirstMatch([i \in Occurrences(u, "ALTER") |->
                                  alterMatchAt(statement, u, i)]))
    IN  matchIn(toUpperCase(statement))

\* first pass of parseSQL: the enums of the statements k..
RECURSIVE enumPass(_, _, _)
enumPass(statements, k, enums) ==
    LET pushed(enumDef) ==
            IF enumDef.matched
            THEN Append(enums, [name |-> enumDef.name, values |-> enumDef.values])
            ELSE enums
        step(trimmed, upperTrimmed) ==
            IF /\ StartsWith(upperTrimmed, "CREATE TYPE")
               /\ Includes(upperTrimmed, "AS ENUM")
            THEN pushed(parseCreateEnum(trimmed))
            ELSE enums
        statement(trimmed) == step(trimmed, toUpperCase(trimmed))
    IN  IF k > Len(statements) THEN enums
        ELSE enumPass(statements, k + 1, statement(Trim(statements[k])))

\* a table pass that gives up the tables collected so far when a statement
\* yields null: what C1 tells from the source's
pushTableOrReset(tables, table) ==
    IF table.matched
    THEN Append(tables, [name        |-> table.name,
                         columns     |-> table.columns,
                         constraints |-> table.constraints])
    ELSE <<>>

\* what the table pass does with the table (or null) of one statement
pushTable(tables, table) ==
    IF table.matched
    THEN Append(tables, [name        |-> table.name,
                         columns     |-> table.columns,
                         constraints |-> table.constraints])
    ELSE tables

\* second pass of parseSQL: the tables of the statements k..
RECURSIVE tablePass(_, _, _, _)
tablePass(statements, k, enums, tables) ==
    LET statement(trimmed) ==
            IF StartsWith(toUpperCase(trimmed), "CREATE TABLE")
            THEN pushTable(tables, parseCreateTable(trimmed, enums))
            ELSE tables
    IN  IF k > Len(statements) THEN tables
        ELSE tablePass(statements, k + 1, enums, statement(Trim(statements[k])))

\* third pass of parseSQL: the ALTER TABLE statements among the statements k..
RECURSIVE alterPass(_, _, _)
alterPass(statements, k, tables) ==
    LET step(trimmed, upperTrimmed) ==
            IF /\ StartsWith(upperTrimmed, "ALTER TABLE")
               /\ \/ Includes(upperTrimmed, "ADD FOREIGN KEY")
                  \/ Includes(upperTrimmed, "ADD CONSTRAINT")
            THEN parseAlterTableForeignKey(trimmed, tables)
            ELSE tables
        statement(trimmed) == step(trimmed, toUpperCase(trimmed))
    IN  IF k > Len(statements) THEN tables
        ELSE alterPass(statements, k + 1, statement(Trim(statements[k])))

\* a parser of one pass: each statement is handled where it stands, with the
\* enums and the tables of the statements before it: what C18 tells from
\* the source's three passes
RECURSIVE onePass(_, _, _, _)
onePass(statements, k, enums, tables) ==
    LET tabled(one, enumsNow) ==
            onePass(statements, k + 1, enumsNow,
                    alterPass(one, 1, tablePass(one, 1, enumsNow, tables)))
        handled(one) == tabled(one, enumPass(one, 1, enums))
    IN  IF k > Len(statements) THEN [tables |-> tables, enums |-> enums]
        ELSE handled(<<statements[k]>>)

parseSQLInOnePass(sql) == onePass(splitStatements(cleanSQL(sql)), 1, <<>>, <<>>)

parseSQL(sql) ==
    LET result(statements, enums) ==
            [tables |-> alterPass(statements, 1, tablePass(statements, 1, enums, <<>>)),
             enums  |-> enums]
        passes(statements) == result(statements, enumPass(statements, 1, <<>>))
    IN  passes(splitStatements(cleanSQL(sql)))

(***************************************************************************)
(* PrismaGenerator (prisma-generator.ts)                                   *)
(***************************************************************************)

\* word.charAt(0).toUpperCase() + word.slice(1).toLowerCase()
capitalize(word) ==
    toUpperCase(CharAt(word, 1)) \o toLowerCase(Slice(word, 2, Len(word)))

toPascalCase(str) ==
    LET capitalized(words) == Concat(Array([k \in 1..Len(words) |-> capitalize(words[k])]))
    IN  capitalized(Split(str, "_"))

toCamelCase(str) ==
    LET lowered(pascal) == toLowerCase(CharAt(pascal, 1)) \o Slice(pascal, 2, Len(pascal))
    IN  lowered(toPascalCase(str))

convertEnumsToPrismaEnums(enums) ==
    Array([k \in 1..Len(enums) |->
             [name |-> toPascalCase(enums[k].name), values |-> enums[k].values]])

IntegerTypes == {"SERIAL", "BIGSERIAL", "INTEGER", "INT", "BIGINT"}

CharacterTypes == {"VARCHAR", "TEXT", "CHAR"}

BooleanTypes == {"BOOLEAN", "BOOL"}

TemporalTypes == {"TIMESTAMP", "TIMESTAMPTZ", "DATE", "TIME"}

NumericTypes == {"DECIMAL", "NUMERIC", "FLOAT", "DOUBLE", "REAL"}

JsonTypes == {"JSON", "JSONB"}

\* the switch of mapSQLTypeToPrismaType
scalarTypeOf(type) ==
    IF type \in IntegerTypes THEN "Int"
    ELSE IF type \in CharacterTypes THEN "String"
    ELSE IF type \in BooleanTypes THEN "Boolean"
    ELSE IF type \in TemporalTypes THEN "DateTime"
    ELSE IF type \in NumericTypes THEN "Float"
    ELSE IF type = "UUID" THEN "String"
    ELSE IF type \in JsonTypes THEN "Json"
    ELSE "String"

mapSQLTypeToPrismaType(sqlType, enums) ==
    LET mapped(expectedEnumName) ==
            IF \E k \in 1..Len(enums) : enums[k].name = expectedEnumName
            THEN expectedEnumName
            ELSE scalarTypeOf(toUpperCase(sqlType))
    IN  mapped(toPascalCase(sqlType))

\* !isNaN(Number(text)) for a text without white space: an optionally signed
\* decimal literal (digits, at most one point, an optional exponent),
\* Infinity, or an unsigned 0x / 0o / 0b literal
isNumeric(text) ==
    LET allIn(t, chars) == \A i \in 1..Len(t) : CharAt(t, i) \in chars
        HexChars == DigitChars \cup {"a", "b", "c", "d", "e", "f"}
        prefixed(lower, p, chars) ==
            /\ StartsWith(lower, p)
            /\ Len(text) > 2
            /\ allIn(Slice(lower, 3, Len(text)), chars)
        radix(lower) ==
            \/ prefixed(lower, "0x", HexChars)
            \/ prefixed(lower, "0o", {"0", "1", "2", "3", "4", "5", "6", "7"})
            \/ prefixed(lower, "0b", {"0", "1"})
        unsigned(t) == IF CharAt(t, 1) \in {"+", "-"} THEN Slice(t, 2, Len(t)) ELSE t
        decimal(mantissa, expBody) ==
            /\ allIn(mantissa, DigitChars \cup {"."})
            /\ Cardinality(Occurrences(mantissa, ".")) <= 1
            /\ \E i \in 1..Len(mantissa) : CharAt(mantissa, i) \in DigitChars
            /\ expBody # ""
            /\ allIn(expBody, DigitChars)
        \* expAt: where the exponent mark of body is, 0 without one
        literal(body, expAt) ==
            decimal(IF expAt = 0 THEN body ELSE Slice(body, 1, expAt - 1),
                    unsigned(IF expAt = 0 THEN "0" ELSE Slice(body, expAt + 1, Len(body))))
        number(body) ==
            body = "Infinity" \/ literal(body, IndexOf(toLowerCase(body), "e", 1))
    IN  number(unsigned(text)) \/ radix(toLowerCase(text))

\* an @id attribute that knows SERIAL only: what C5 tells from the source's
idAttributeSerialOnly(column) ==
    IF column.type = "SERIAL"
    THEN "@id @default(autoincrement())"
    ELSE IF column.type = "UUID" /\ Includes(column.defaultValue, "gen_random_uuid")
    THEN "@id @default(dbgenerated(\"gen_random_uuid()\"))"
    ELSE "@id"

\* the @id attribute of a primary-key column
idAttribute(column) ==
    IF column.type = "SERIAL" \/ column.type = "BIGSERIAL"
    THEN "@id @default(autoincrement())"
    ELSE IF column.type = "UUID" /\ Includes(column.defaultValue, "gen_random_uuid")
    THEN "@id @default(dbgenerated(\"gen_random_uuid()\"))"
    ELSE "@id"

\* a @default attribute that holds the default value as it is written,
\* whatever it is: what C23 tells from the source's rules
defaultAttributeRaw(defaultValue) == "@default(" \o defaultValue \o ")"

\* a @default attribute that quotes every default value: what C13 tells
\* from the source's
defaultAttributeQuoted(defaultValue) ==
    "@default(\"" \o defaultValue \o "\")"

\* the @default attribute of a column with a default value
defaultAttribute(defaultValue) ==
    LET \* defaultValue.replace(/^\(|\)$/g, "")
        cleanedValue == Slice(defaultValue,
                              IF StartsWith(defaultValue, "(") THEN 2 ELSE 1,
                              IF EndsWith(defaultValue, ")")
                              THEN Len(defaultValue) - 1 ELSE Len(defaultValue))
        attribute(upperDefault) ==
            IF upperDefault \in {"CURRENT_TIMESTAMP", "NOW()", "(NOW())"}
            THEN "@default(now())"
            ELSE IF Includes(defaultValue, "gen_random_uuid")
            THEN "@default(dbgenerated(\"gen_random_uuid()\"))"
            ELSE IF defaultValue = "true" \/ defaultValue = "false"
            THEN "@default(" \o defaultValue \o ")"
            ELSE IF isNumeric(defaultValue)
            THEN "@default(" \o defaultValue \o ")"
            ELSE IF \/ Includes(upperDefault, "NOW()")
                    \/ Includes(upperDefault, "CURRENT_TIMESTAMP")
            THEN "@default(now())"
            ELSE IF Includes(defaultValue, "::json") \/ Includes(defaultValue, "::jsonb")
            THEN "@default(dbgenerated(\"" \o cleanedValue \o "\"))"
            ELSE "@default(\"" \o defaultValue \o "\")"
    IN  attribute(toUpperCase(defaultValue))

\* a field is optional when its column is nullable and not the primary key
fieldIsOptional(column) == column.nullable /\ ~column.isPrimaryKey

\* a field whose @map attribute comes first and whose @updatedAt takes the
\* place of the @default attribute: what C24 tells from the source's
convertColumnToFieldMapFirst(column, enums) ==
    LET updated ==
            /\ Includes(column.type, "TIMESTAMP")
            /\ Includes(toLowerCase(column.name), "updated")
        attributes(name) ==
            (IF column.name # name
             THEN <<"@map(\"" \o column.name \o "\")">> ELSE <<>>)
            \o (IF column.isPrimaryKey THEN <<idAttribute(column)>> ELSE <<>>)
            \o (IF column.isUnique /\ ~column.isPrimaryKey THEN <<"@unique">> ELSE <<>>)
            \o (IF updated THEN <<"@updatedAt">>
                ELSE IF column.defaultValue # "" /\ ~column.isPrimaryKey
                THEN <<defaultAttribute(column.defaultValue)>> ELSE <<>>)
            \o (IF column.type = "UUID" THEN <<"@db.Uuid">> ELSE <<>>)
            \o (IF column.type = "JSONB" THEN <<"@db.JsonB">>
                ELSE IF column.type = "JSON" THEN <<"@db.Json">> ELSE <<>>)
        field(name) ==
            [name       |-> name,
             type       |-> mapSQLTypeToPrismaType(column.type,
                                IF column.isEnum THEN enums ELSE <<>>),
             attributes |-> attributes(name),
             isOptional |-> fieldIsOptional(column),
             isArray    |-> FALSE]
    IN  field(toCamelCase(column.name))

convertColumnToField(column, enums) ==
    LET attributes(name) ==
            (IF column.isPrimaryKey THEN <<idAttribute(column)>> ELSE <<>>)
            \o (IF column.isUnique /\ ~column.isPrimaryKey THEN <<"@unique">> ELSE <<>>)
            \o (IF column.defaultValue # "" /\ ~column.isPrimaryKey
                THEN <<defaultAttribute(column.defaultValue)>> ELSE <<>>)
            \o (IF /\ Includes(column.type, "TIMESTAMP")
                   /\ Includes(toLowerCase(column.name), "updated")
                THEN <<"@updatedAt">> ELSE <<>>)
            \o (IF column.name # name
                THEN <<"@map(\"" \o column.name \o "\")">> ELSE <<>>)
            \o (IF column.type = "UUID" THEN <<"@db.Uuid">> ELSE <<>>)
            \o (IF column.type = "JSONB" THEN <<"@db.JsonB">>
                ELSE IF column.type = "JSON" THEN <<"@db.Json">> ELSE <<>>)
        field(name) ==
            [name       |-> name,
             type       |-> mapSQLTypeToPrismaType(column.type,
                                IF column.isEnum THEN enums ELSE <<>>),
             attributes |-> attributes(name),
             isOptional |-> fieldIsOptional(column),
             isArray    |-> FALSE]
    IN  field(toCamelCase(column.name))

createBasicModel(table, enums) ==
    LET model(modelName) ==
            [name       |-> modelName,
             fields     |-> Array([k \in 1..Len(table.columns) |->
                                     convertColumnToField(table.columns[k], enums)]),
             attributes |-> IF table.name # toLowerCase(modelName)
                            THEN <<"@@map(\"" \o table.name \o "\")">>
                            ELSE <<>>]
    IN  model(toPascalCase(table.name))

\* fkColumn.replace(/_id$/i, "")
stripIdSuffix(fkColumn) ==
    IF EndsWith(toLowerCase(fkColumn), "_id")
    THEN Slice(fkColumn, 1, Len(fkColumn) - 3)
    ELSE fkColumn

extractForeignKeyContext(fkColumn) ==
    LET context(cleaned, parts) ==
            IF Len(parts) >= 2
            THEN parts[Len(parts) - 1] \o "_" \o parts[Len(parts)]
            ELSE IF Len(parts) = 1 THEN parts[1] ELSE cleaned
        nonEmpty(pieces) == FilterIndices(pieces, {k \in 1..Len(pieces) : pieces[k] # ""})
        contextOf(cleaned) == context(cleaned, nonEmpty(Split(cleaned, "_")))
    IN  contextOf(stripIdSuffix(fkColumn))

\* a forward field always named after the target table: what C25 tells from
\* the source's
extractRelationFieldNameFromTable(fkColumn, targetTable) == toCamelCase(targetTable)

extractRelationFieldName(fkColumn, targetTable) ==
    LET named(columnBase) ==
            IF toLowerCase(fkColumn) = "id" THEN toCamelCase(targetTable)
            ELSE IF toLowerCase(columnBase) = toLowerCase(targetTable)
            THEN toCamelCase(targetTable)
            ELSE toCamelCase(columnBase)
    IN  named(stripIdSuffix(fkColumn))

\* a plural that appends s to every word: what C14 tells from the source's
pluralizeAppendS(word) == word \o "s"

pluralize(word) ==
    LET plural(lower) ==
            IF EndsWith(lower, "s") THEN word
            ELSE IF \/ EndsWith(lower, "sh") \/ EndsWith(lower, "ch")
                    \/ EndsWith(lower, "x")  \/ EndsWith(lower, "z")
            THEN word \o "es"
            ELSE IF /\ EndsWith(lower, "y")
                    /\ CharAt(lower, Len(lower) - 1) \notin {"a", "e", "i", "o", "u"}
            THEN Slice(word, 1, Len(word) - 1) \o "ies"
            ELSE word \o "s"
    IN  plural(toLowerCase(word))

generateUniqueFieldName(sourceTable, targetTable, columns, isBackRelation) ==
    IF isBackRelation
    THEN pluralize(toCamelCase(sourceTable))
    ELSE extractRelationFieldName(columns[1], targetTable)

\* relationCounter.get(baseName) || 0
counterGet(counter, baseName) ==
    IF baseName \in DOMAIN counter THEN counter[baseName] ELSE 0

\* generateUniqueRelationName: the relation name of the constraint, and the
\* counter after relationCounter.set(baseName, count + 1)
generateUniqueRelationName(fromTable, toTable, fkColumn, counter) ==
    LET counted(baseName, count) ==
            [name    |-> IF count > 0
                         THEN baseName \o "_"
                              \o toPascalCase(extractForeignKeyContext(fkColumn))
                         ELSE baseName,
             counter |-> (baseName :> (count + 1)) @@ counter]
        named(baseName) == counted(baseName, counterGet(counter, baseName))
    IN  named(toPascalCase(fromTable) \o "To" \o toPascalCase(toTable))

\* an optionality that looks the column up by its field name: what C9 tells
\* from the source's
isRelationOptionalByFieldName(constraint, table) ==
    \E c \in 1..Len(constraint.columns) :
        LET nullable(found) == found # {} /\ table.columns[Min(found)].nullable
        IN  nullable({k \in 1..Len(table.columns) :
                        toCamelCase(table.columns[k].name) = constraint.columns[c]})

\* constraint.columns.some(colName => table.columns.find(...)?.nullable || false)
isRelationOptional(constraint, table) ==
    \E c \in 1..Len(constraint.columns) :
        LET nullable(found) == found # {} /\ table.columns[Min(found)].nullable
        IN  nullable({k \in 1..Len(table.columns) :
                        table.columns[k].name = constraint.columns[c]})

\* createRelationField; the guard returning null never holds for a FOREIGN
\* KEY constraint the second pass handles with at least one column
createRelationField(constraint, table, relationName) ==
    LET foreignKeyFields == Array([k \in 1..Len(constraint.columns) |->
                                      toCamelCase(constraint.columns[k])])
        referencedFields == Array([k \in 1..Len(constraint.referencedColumns) |->
                                      toCamelCase(constraint.referencedColumns[k])])
    IN  [name       |-> generateUniqueFieldName(table.name, constraint.referencedTable,
                                                constraint.columns, FALSE),
         type       |-> toPascalCase(constraint.referencedTable),
         attributes |-> <<"@relation(\"" \o relationName \o "\", fields: ["
                          \o Join(foreignKeyFields, ", ") \o "], references: ["
                          \o Join(referencedFields, ", ") \o "])">>,
         isOptional |-> isRelationOptional(constraint, table),
         isArray    |-> FALSE]

\* a back-relation field that is not an array: what C2 tells from the source's
createSingularBackRelationField(constraint, table, relationName) ==
    [name       |-> pluralize(toCamelCase(table.name)),
     type       |-> toPascalCase(table.name),
     attributes |-> <<"@relation(\"" \o relationName \o "\")">>,
     isOptional |-> FALSE,
     isArray    |-> FALSE]

createBackRelationField(constraint, table, relationName) ==
    LET fkCountToSameTarget ==
            Cardinality({k \in 1..Len(table.constraints) :
                           /\ table.constraints[k].type = "FOREIGN KEY"
                           /\ table.constraints[k].referencedTable
                                = constraint.referencedTable})
        baseBackName == pluralize(toCamelCase(table.name))
        needsContext == fkCountToSameTarget > 1
        fkContext    == extractForeignKeyContext(constraint.columns[1])
    IN  [name       |-> IF needsContext
                        THEN baseBackName \o toPascalCase(fkContext)
                        ELSE baseBackName,
         type       |-> toPascalCase(table.name),
         attributes |-> <<"@relation(\"" \o relationName \o "\")">>,
         isOptional |-> FALSE,
         isArray    |-> TRUE]

\* a lookup that falls back on the first model when none has the name: what
\* C8 tells from the source's
findModelOrFirst(mods, name) ==
    LET first(found) == IF found # {} THEN Min(found) ELSE IF Len(mods) > 0 THEN 1 ELSE 0
    IN  first({k \in 1..Len(mods) : mods[k].name = name})

\* models.find(m => m.name === name): the index of the first such model, 0 if none
findModel(mods, name) ==
    LET first(found) == IF found = {} THEN 0 ELSE Min(found)
    IN  first({k \in 1..Len(mods) : mods[k].name = name})

\* a second pass that puts the relation fields in front of the fields of
\* the model: what C26 tells from the source's push
addRelationInFront(state, table, constraint) ==
    LET pushedBack(withForward, back, referencedModel) ==
            IF referencedModel # 0
            THEN [withForward EXCEPT ![referencedModel].fields = <<back>> \o @]
            ELSE withForward
        pushedForward(withForward, back, counter) ==
            [models  |-> pushedBack(withForward, back,
                             findModel(withForward,
                                       toPascalCase(constraint.referencedTable))),
             counter |-> counter]
        related(model, relation) ==
            pushedForward([state.models EXCEPT ![model].fields =
                              <<createRelationField(constraint, table,
                                                    relation.name)>> \o @],
                          createBackRelationField(constraint, table, relation.name),
                          relation.counter)
    IN  IF constraint.type = "FOREIGN KEY" /\ constraint.referencedTable # ""
        THEN related(findModel(state.models, toPascalCase(table.name)),
                     generateUniqueRelationName(table.name, constraint.referencedTable,
                                                constraint.columns[1], state.counter))
        ELSE state

\* what the second pass does for one constraint of a table: the forward field
\* goes to the table's model, the back-relation field to the referenced model
\* when there is one
addRelation(state, table, constraint) ==
    LET pushedBack(withForward, back, referencedModel) ==
            IF referencedModel # 0
            THEN [withForward EXCEPT ![referencedModel].fields = Append(@, back)]
            ELSE withForward
        pushedForward(withForward, back, counter) ==
            [models  |-> pushedBack(withForward, back,
                             findModel(withForward,
                                       toPascalCase(constraint.referencedTable))),
             counter |-> counter]
        related(model, relation) ==
            pushedForward([state.models EXCEPT ![model].fields =
                              Append(@, createRelationField(constraint, table,
                                                            relation.name))],
                          createBackRelationField(constraint, table, relation.name),
                          relation.counter)
    IN  IF constraint.type = "FOREIGN KEY" /\ constraint.referencedTable # ""
        THEN related(findModel(state.models, toPascalCase(table.name)),
                     generateUniqueRelationName(table.name, constraint.referencedTable,
                                                constraint.columns[1], state.counter))
        ELSE state

\* the loop over the constraints k.. of a table
RECURSIVE addRelationsOf(_, _, _)
addRelationsOf(state, table, k) ==
    IF k > Len(table.constraints) THEN state
    ELSE addRelationsOf(addRelation(state, table, table.constraints[k]), table, k + 1)

\* the second pass over the tables t..
RECURSIVE relationPass(_, _, _)
relationPass(state, tables, t) ==
    IF t > Len(tables) THEN state
    ELSE relationPass(addRelationsOf(state, tables[t], 1), tables, t + 1)

\* a relation counter that outlives the call, as a static field of the class
\* would: what C4 tells from the source's
sharedRelationCounter(left) == left

\* const relationCounter = new Map(): a map with no entry, whatever a
\* previous call left in its own
newRelationCounter(left) == << >>

\* a generator of one pass: the relation fields of a table are made as soon
\* as its model is, among the models of the tables before it: what C19
\* tells from the source's two passes
RECURSIVE singlePass(_, _, _, _)
singlePass(state, tables, enums, t) ==
    LET withModel(model) ==
            [models  |-> Append(state.models, model),
             counter |-> state.counter]
    IN  IF t > Len(tables) THEN state
        ELSE singlePass(addRelationsOf(withModel(createBasicModel(tables[t], enums)),
                                       tables[t], 1),
                        tables, enums, t + 1)

convertTablesToModelsInOnePass(tables, enums, relationCounter0) ==
    singlePass([models |-> <<>>, counter |-> relationCounter0], tables, enums, 1)

\* convertTablesToModels: the models and the relation counter it ends with
convertTablesToModels(tables, enums, relationCounter0) ==
    relationPass([models  |-> Array([t \in 1..Len(tables) |->
                                       createBasicModel(tables[t], enums)]),
                  counter |-> relationCounter0],
                 tables, 1)

isRelationField(field) ==
    \E a \in 1..Len(field.attributes) : Includes(field.attributes[a], "@relation")

\* text.padEnd(width)
padEnd(text, width) ==
    IF Len(text) >= width THEN text
    ELSE text \o Concat(Array([k \in 1..(width - Len(text)) |-> " "]))

\* the type annotation of a field: type, "?" when optional, "[]" when an array
typeAnnotation(field) ==
    field.type \o (IF field.isOptional THEN "?" ELSE "")
               \o (IF field.isArray THEN "[]" ELSE "")

formatField(field, maxFieldLength, maxTypeLength) ==
    LET line(attributes) ==
            "  " \o padEnd(field.name, maxFieldLength) \o " "
                 \o padEnd(typeAnnotation(field), maxTypeLength)
                 \o (IF attributes # "" THEN " " \o attributes ELSE "") \o "\n"
    IN  line(Join(field.attributes, " "))

formatModel(model) ==
    LET n == Len(model.fields)
        lines(fields, maxFieldLength, maxTypeLength) ==
            Concat(Array([k \in 1..Len(fields) |->
                            formatField(fields[k], maxFieldLength, maxTypeLength)]))
        relations(relationFields, maxFieldLength, maxTypeLength) ==
            IF Len(relationFields) > 0
            THEN "\n  // Relations\n" \o lines(relationFields, maxFieldLength, maxTypeLength)
            ELSE ""
        block(maxFieldLength, maxTypeLength) ==
            "model " \o model.name \o " {\n"
            \o lines(FilterIndices(model.fields,
                         {k \in 1..n : ~isRelationField(model.fields[k])}),
                     maxFieldLength, maxTypeLength)
            \o relations(FilterIndices(model.fields,
                             {k \in 1..n : isRelationField(model.fields[k])}),
                         maxFieldLength, maxTypeLength)
            \o (IF Len(model.attributes) > 0
                THEN "\n" \o Concat(Array([k \in 1..Len(model.attributes) |->
                                             "  " \o model.attributes[k] \o "\n"]))
                ELSE "")
            \o "}"
        \* Math.max of no value is -Infinity: nothing is padded
    IN  block(IF n = 0 THEN 0 ELSE Max({Len(model.fields[k].name) : k \in 1..n}),
              IF n = 0 THEN 0
              ELSE Max({Len(typeAnnotation(model.fields[k])) : k \in 1..n}))

formatEnum(enumDef) ==
    "enum " \o enumDef.name \o " {\n"
    \o Join(Array([k \in 1..Len(enumDef.values) |-> "  " \o enumDef.values[k]]), "\n")
    \o "\n}"

header ==
    "// Generated Prisma schema\ngenerator client {\n  provider = \"prisma-client-js\"\n}\n\n"
    \o "datasource db {\n  provider = \"postgresql\"\n  url      = env(\"DATABASE_URL\")\n}\n\n"

\* the text generatePrismaSchema returns for the converted enums and models
schemaText(enums, mods) ==
    header
    \o (IF Len(enums) > 0
        THEN Join(Array([k \in 1..Len(enums) |-> formatEnum(enums[k])]), "\n\n") \o "\n\n"
        ELSE "")
    \o Join(Array([k \in 1..Len(mods) |-> formatModel(mods[k])]), "\n\n")

\* generatePrismaSchema: the text, with the models and the relation counter
\* of the call
generatePrismaSchema(result, relationCounter0) ==
    LET schema(enums, generated) ==
            [text    |-> schemaText(enums, generated.models),
             models  |-> generated.models,
             counter |-> generated.counter]
        converted(enums) ==
            schema(enums, convertTablesToModels(result.tables, enums, relationCounter0))
    IN  converted(convertEnumsToPrismaEnums(result.enums))

\* (prismaSchema.match(/^model\s+\w+/gm) || []).length and the same for
\* enum: the lines of the text that start with the keyword, white space and
\* a word character
countBlocks(text, keyword) ==
    LET starts(line, after) == after # 0 /\ IsWordChar(CharAt(line, after))
        count(lines) ==
            Cardinality({k \in 1..Len(lines) :
                starts(lines[k], Spaces1(lines[k], Keyword(lines[k], 1, keyword)))})
    IN  count(Split(text, "\n"))

(***************************************************************************)
(* The inputs: SQL texts of one to MaxStatements statements taken from a   *)
(* pool, and one-column tables over a grid of column clauses.              *)
(***************************************************************************)

MaxStatements == 2

MaxRuns == 2

UsersTable ==
    "-- Create Users table\nCREATE TABLE users (\n  id SERIAL PRIMARY KEY,\n"
    \o "  email VARCHAR(255) UNIQUE NOT NULL,\n"
    \o "  created_at TIMESTAMP DEFAULT CURRENT_TIMESTAMP\n)"

PostsTable ==
    "CREATE TABLE posts (id SERIAL PRIMARY KEY, title VARCHAR(255) NOT NULL, "
    \o "author_id INTEGER REFERENCES users(id))"

TicketsTable ==
    "create table tickets (id bigserial not null primary key, "
    \o "created_by INT NOT NULL REFERENCES users(id), "
    \o "assigned_to INT REFERENCES users(id))"

MatchesTable ==
    "CREATE TABLE matches (id UUID PRIMARY KEY DEFAULT gen_random_uuid(), "
    \o "home_team_lead_id INT NOT NULL REFERENCES users(id), "
    \o "away_team_lead_id INT NOT NULL REFERENCES users(id))"

AccountsTable ==
    "CREATE TABLE accounts (id SERIAL PRIMARY KEY, status STATUS NOT NULL, "
    \o "owner_id INT NOT NULL REFERENCES Users(id), "
    \o "shop_id INT REFERENCES shops(id))"

CategoriesTable ==
    "CREATE TABLE \"categories\" (\"id\" INT PRIMARY KEY, "
    \o "parent_id INT REFERENCES categories(id) /* self */, "
    \o "posts_id INT REFERENCES posts(id))"

StatusEnum == "CREATE TYPE status AS ENUM ('ACTIVE', 'INACTIVE')"

AlterPosts ==
    "ALTER TABLE posts ADD CONSTRAINT fk_editor FOREIGN KEY (editor_id) REFERENCES users (id)"

\* CREATE TABLE statements that miss the shape: no closing parenthesis, no
\* table name, no parenthesis at all
BrokenTables ==
    {"CREATE TABLE broken (id INT, name TEXT",
     "CREATE TABLE (id INT)",
     "CREATE TABLE dangling"}

\* the well-formed CREATE TABLE statements of the pool, by table name
WellFormedTables ==
    ("users" :> UsersTable) @@ ("posts" :> PostsTable) @@ ("tickets" :> TicketsTable)
    @@ ("matches" :> MatchesTable) @@ ("accounts" :> AccountsTable)
    @@ ("categories" :> CategoriesTable)

StatementPool ==
    {WellFormedTables[n] : n \in DOMAIN WellFormedTables}
    \cup BrokenTables \cup {StatusEnum, AlterPosts, "SELECT 1"}

Batches == UNION {[1..n -> StatementPool] : n \in 1..MaxStatements}

\* the text of a batch: its statements, each ended by ";" and a line break
batchText(batch) == Concat([k \in 1..Len(batch) |-> batch[k] \o ";\n"])

\* declared column types: the type name and the parameter list or words that
\* follow it
DeclaredTypes ==
    {[base |-> b, rest |-> ""] :
        b \in IntegerTypes \cup CharacterTypes \cup BooleanTypes \cup TemporalTypes
              \cup NumericTypes \cup JsonTypes \cup {"UUID", "MONEY", "SMALLINT"}}
    \cup {[base |-> "VARCHAR", rest |-> "(255)"], [base |-> "varchar", rest |-> "(50)"],
          [base |-> "CHAR", rest |-> "(1)"], [base |-> "TIMESTAMP", rest |-> "(3)"],
          [base |-> "timestamp", rest |-> " with time zone"],
          [base |-> "DOUBLE", rest |-> " PRECISION"], [base |-> "FLOAT", rest |-> "(8)"],
          [base |-> "NUMERIC", rest |-> "(12)"], [base |-> "DECIMAL", rest |-> "(10,2)"],
          [base |-> "NUMERIC", rest |-> "(10, 2)"], [base |-> "numeric", rest |-> "(8,2)"],
          [base |-> "integer", rest |-> ""], [base |-> "Text", rest |-> ""]}

ColumnModifiers == {"", " NOT NULL", " DEFAULT NULL"}

\* a table with a key and one column "amount" of the declared type
typedColumnText(declared, modifier) ==
    "CREATE TABLE items (id INT PRIMARY KEY, amount "
    \o declared.base \o declared.rest \o modifier \o ");"

SerialTypes == {"SERIAL", "BIGSERIAL", "serial", "BigSerial"}

\* what a SERIAL PRIMARY KEY column clause may say about nullability and
\* about a default
KeyClauses ==
    {" PRIMARY KEY", " NOT NULL PRIMARY KEY", " PRIMARY KEY NOT NULL", " NULL PRIMARY KEY",
     " primary key", " PRIMARY KEY DEFAULT 7", " DEFAULT nextval('items_id_seq') PRIMARY KEY",
     " UNIQUE PRIMARY KEY DEFAULT (1)"}

\* a table whose column "id" is declared with a serial type as primary key
serialKeyText(type, key) ==
    "CREATE TABLE items (\n  id " \o type \o key \o ",\n  name TEXT\n);"

\* top-level FOREIGN KEY clauses of a CREATE TABLE body, with the columns,
\* the table and the referenced columns they name
ForeignKeyClauses ==
    {[text       |-> "FOREIGN KEY (order_id, product_id) REFERENCES orders(id, product_id)",
      columns    |-> <<"order_id", "product_id">>,
      table      |-> "orders",
      referenced |-> <<"id", "product_id">>],
     [text       |-> "CONSTRAINT fk_order FOREIGN KEY (order_id, product_id) REFERENCES orders (id, product_id)",
      columns    |-> <<"order_id", "product_id">>,
      table      |-> "orders",
      referenced |-> <<"id", "product_id">>],
     [text       |-> "FOREIGN KEY (order_id) REFERENCES orders(id)",
      columns    |-> <<"order_id">>,
      table      |-> "orders",
      referenced |-> <<"id">>],
     [text       |-> "foreign key(product_id) references products(id)",
      columns    |-> <<"product_id">>,
      table      |-> "products",
      referenced |-> <<"id">>]}

\* a table whose body ends with the clause
foreignKeyClauseText(clause) ==
    "CREATE TABLE order_items (\n  order_id INT NOT NULL,\n  product_id INT NOT NULL,\n  "
    \o clause.text \o "\n);"

\* ALTER TABLE statements that add a foreign key, with the table, the
\* column, the referenced table and the referenced column they name
AlterForms ==
    {[text |-> AlterPosts,
      table |-> "posts", column |-> "editor_id", referenced |-> "users", referencedColumn |-> "id"],
     [text |-> "ALTER TABLE posts ADD FOREIGN KEY (editor_id) REFERENCES users(id)",
      table |-> "posts", column |-> "editor_id", referenced |-> "users", referencedColumn |-> "id"],
     [text |-> "ALTER TABLE \"posts\" ADD CONSTRAINT \"fk_editor\" FOREIGN KEY (\"editor_id\") REFERENCES \"users\" (\"id\")",
      table |-> "posts", column |-> "editor_id", referenced |-> "users", referencedColumn |-> "id"],
     [text |-> "alter table users add foreign key ( best_post_id ) references posts ( id )",
      table |-> "users", column |-> "best_post_id", referenced |-> "posts", referencedColumn |-> "id"],
     [text |-> "ALTER TABLE accounts ADD FOREIGN KEY (status) REFERENCES users (id)",
      table |-> "accounts", column |-> "status", referenced |-> "users", referencedColumn |-> "id"]}

\* the tables an ALTER TABLE statement is written after
AlterPrefixes == {<<UsersTable, PostsTable>>, <<PostsTable, UsersTable>>, <<UsersTable>>, <<TicketsTable>>}

\* batches that end with an ALTER TABLE statement
AlterBatches == {prefix \o <<form.text>> : prefix \in AlterPrefixes, form \in AlterForms}

\* table names, with the plural the back-relation field of the table is to
\* be named with
PluralWords ==
    {[table |-> "category", plural |-> "categories"],
     [table |-> "box", plural |-> "boxes"],
     [table |-> "post", plural |-> "posts"],
     [table |-> "posts", plural |-> "posts"],
     [table |-> "status", plural |-> "status"],
     [table |-> "dish", plural |-> "dishes"],
     [table |-> "match", plural |-> "matches"],
     [table |-> "quiz", plural |-> "quizes"],
     [table |-> "day", plural |-> "days"],
     [table |-> "key", plural |-> "keys"],
     [table |-> "city", plural |-> "cities"],
     [table |-> "fly", plural |-> "flies"],
     [table |-> "Company", plural |-> "companies"],
     [table |-> "user_profile", plural |-> "userProfiles"]}

\* a table that references itself
selfReferenceText(table) ==
    "CREATE TABLE " \o table \o " (id INT PRIMARY KEY, parent_id INT REFERENCES "
    \o table \o "(id));"

\* texts with comments, each with the same text written without them
CommentedTexts ==
    {[text |-> "-- CREATE TABLE legacy (id INT);\n" \o PostsTable \o ";\n",
      bare |-> PostsTable \o ";\n"],
     [text |-> "/* CREATE TABLE legacy (id INT); */\n" \o PostsTable \o ";\n",
      bare |-> "\n" \o PostsTable \o ";\n"],
     [text |-> "/*\nCREATE TYPE mood AS ENUM ('sad', 'ok');\nCREATE TABLE legacy (id INT);\n*/\n"
               \o StatusEnum \o ";\n" \o AccountsTable \o ";\n",
      bare |-> "\n" \o StatusEnum \o ";\n" \o AccountsTable \o ";\n"],
     [text |-> "CREATE TABLE notes (\n  id INT PRIMARY KEY, -- the key, never null\n"
               \o "  body TEXT /* text, plain */ NOT NULL\n); -- CREATE TABLE legacy (id INT);\n",
      bare |-> "CREATE TABLE notes (\n  id INT PRIMARY KEY, \n"
               \o "  body TEXT  NOT NULL\n); \n"],
     [text |-> "-- old: /* CREATE TABLE legacy (id INT);\n" \o PostsTable \o "; -- */\n",
      bare |-> "\n" \o PostsTable \o "; \n"],
     [text |-> "/* legacy tables -- removed */\n" \o PostsTable \o ";\n",
      bare |-> "\n" \o PostsTable \o ";\n"],
     [text |-> "/* posts -- with authors */ " \o PostsTable \o ";\n/* users */ "
               \o UsersTable \o ";\n",
      bare |-> " " \o PostsTable \o ";\n " \o UsersTable \o ";\n"]}

\* the orders a sequence of statements can be written in
Orderings(script) ==
    {[k \in 1..Len(script) |-> script[p[k]]] :
        p \in {q \in [1..Len(script) -> 1..Len(script)] :
                 \A i, j \in 1..Len(script) : q[i] = q[j] => i = j}}

\* scripts of an enum, tables and an ALTER TABLE statement, in every order
OrderBatches ==
    Orderings(<<StatusEnum, UsersTable, AccountsTable>>)
    \cup Orderings(<<UsersTable, PostsTable, AlterPosts>>)
    \cup Orderings(<<StatusEnum, AccountsTable,
                     "ALTER TABLE accounts ADD FOREIGN KEY (status) REFERENCES users (id)">>)

\* bodies of CREATE TABLE statements, each with its clauses written out
SplitBodies ==
    {[body  |-> "id INT",
      parts |-> <<"id INT">>],
     [body  |-> "id INT, name TEXT",
      parts |-> <<"id INT", "name TEXT">>],
     [body  |-> "price DECIMAL(10,2) NOT NULL, id INT",
      parts |-> <<"price DECIMAL(10,2) NOT NULL", "id INT">>],
     [body  |-> "a INT , b INT,PRIMARY KEY (a, b)",
      parts |-> <<"a INT", "b INT", "PRIMARY KEY (a, b)">>],
     [body  |-> "order_id INT, FOREIGN KEY (order_id, product_id) REFERENCES orders(id, product_id), note TEXT",
      parts |-> <<"order_id INT",
                  "FOREIGN KEY (order_id, product_id) REFERENCES orders(id, product_id)",
                  "note TEXT">>],
     [body  |-> "code TEXT CHECK (length(coalesce(code, 'x,y')) > 0), total NUMERIC(12, 2), id INT",
      parts |-> <<"code TEXT CHECK (length(coalesce(code, 'x,y')) > 0)",
                  "total NUMERIC(12, 2)", "id INT">>],
     [body  |-> "label TEXT DEFAULT 'a,b', id INT",
      parts |-> <<"label TEXT DEFAULT 'a", "b'", "id INT">>],
     [body  |-> "id INT,, name TEXT",
      parts |-> <<"id INT", "", "name TEXT">>],
     [body  |-> "id INT, name TEXT, ",
      parts |-> <<"id INT", "name TEXT">>]}

\* the CREATE TABLE statement of a body
splitText(body) == "CREATE TABLE items (" \o body \o ");"

\* bodies of CREATE TABLE statements, each with the names of its column
\* clauses in the order of their declaration
ClauseBodies ==
    {[body    |-> "id INT, unique_code TEXT, checked_at TIMESTAMP, primary_key_note TEXT",
      columns |-> <<"id", "unique_code", "checked_at", "primary_key_note">>],
     [body    |-> "a INT, b INT, PRIMARY KEY(a, b)",
      columns |-> <<"a", "b">>],
     [body    |-> "a INT, UNIQUE(a), b INT, CHECK(a > 0)",
      columns |-> <<"a", "b">>],
     [body    |-> "a INT, b INT, PRIMARY KEY (a, b)",
      columns |-> <<"a", "b">>],
     [body    |-> "a INT, b INT, UNIQUE (a, b)",
      columns |-> <<"a", "b">>],
     [body    |-> "a INT, CHECK (a > 0), b INT",
      columns |-> <<"a", "b">>],
     [body    |-> "order_id INT, FOREIGN KEY (order_id) REFERENCES orders(id), note TEXT",
      columns |-> <<"order_id", "note">>]}

\* the CREATE TABLE statement of such a body
clauseText(body) == "CREATE TABLE pairs (" \o body \o ");"

\* column clauses, each with whether the column is to be nullable
NullabilityClauses ==
    {[clause |-> "note TEXT", nullable |-> TRUE],
     [clause |-> "note TEXT NOT NULL", nullable |-> FALSE],
     [clause |-> "note text not null", nullable |-> FALSE],
     [clause |-> "note TEXT NOT\n    NULL", nullable |-> FALSE],
     [clause |-> "note TEXT NULL", nullable |-> TRUE],
     [clause |-> "note TEXT UNIQUE", nullable |-> TRUE],
     [clause |-> "code INT primary key", nullable |-> FALSE],
     [clause |-> "code INT UNIQUE PRIMARY KEY", nullable |-> FALSE],
     [clause |-> "not_null_note TEXT", nullable |-> TRUE],
     [clause |-> "owner_id INT DEFAULT 1 NOT NULL REFERENCES users(id)", nullable |-> FALSE],
     [clause |-> "owner_id INT REFERENCES users(id)", nullable |-> TRUE]}

\* a table whose second column is the clause
nullabilityText(clause) ==
    "CREATE TABLE flags (\n  id SERIAL PRIMARY KEY,\n  " \o clause \o "\n);"

\* column clauses with a DEFAULT, each with the @default attribute its
\* field is to carry ("" for none)
DefaultClauses ==
    {[clause |-> "created TIMESTAMP DEFAULT CURRENT_TIMESTAMP", attribute |-> "@default(now())"],
     [clause |-> "created TIMESTAMP DEFAULT now()", attribute |-> "@default(now())"],
     [clause |-> "created TIMESTAMP DEFAULT (NOW())", attribute |-> "@default(now())"],
     [clause |-> "token UUID DEFAULT gen_random_uuid()",
      attribute |-> "@default(dbgenerated(\"gen_random_uuid()\"))"],
     [clause |-> "token TEXT DEFAULT gen_random_uuid()::text",
      attribute |-> "@default(dbgenerated(\"gen_random_uuid()\"))"],
     [clause |-> "active BOOLEAN DEFAULT true", attribute |-> "@default(true)"],
     [clause |-> "active BOOLEAN DEFAULT false NOT NULL", attribute |-> "@default(false)"],
     [clause |-> "retries INT DEFAULT 3", attribute |-> "@default(3)"],
     [clause |-> "ratio NUMERIC DEFAULT -0.5", attribute |-> "@default(-0.5)"],
     [clause |-> "expires TIMESTAMP DEFAULT now()::timestamp", attribute |-> "@default(now())"],
     [clause |-> "expires DATE DEFAULT current_timestamp::date", attribute |-> "@default(now())"],
     [clause |-> "meta JSONB DEFAULT '{}'::jsonb",
      attribute |-> "@default(dbgenerated(\"'{}'::jsonb\"))"],
     [clause |-> "meta JSONB DEFAULT ('{}'::jsonb)",
      attribute |-> "@default(dbgenerated(\"'{}'::jsonb\"))"],
     [clause |-> "tags JSON DEFAULT '[]'::json",
      attribute |-> "@default(dbgenerated(\"'[]'::json\"))"],
     [clause |-> "state TEXT DEFAULT 'draft'", attribute |-> "@default(\"'draft'\")"],
     [clause |-> "state TEXT DEFAULT draft UNIQUE", attribute |-> "@default(\"draft\")"],
     [clause |-> "state TEXT NOT NULL", attribute |-> ""],
     [clause |-> "code INT DEFAULT 7 PRIMARY KEY", attribute |-> ""],
     [clause |-> "created TIMESTAMP DEFAULT now() PRIMARY KEY", attribute |-> ""]}

\* a table whose second column is the clause
defaultText(clause) ==
    "CREATE TABLE settings (\n  id SERIAL PRIMARY KEY,\n  " \o clause \o "\n);"

\* column clauses, each with the attributes its field is to carry, in order
AttributeClauses ==
    {[clause |-> "updated_at TIMESTAMP UNIQUE DEFAULT CURRENT_TIMESTAMP",
      attributes |-> <<"@unique", "@default(now())", "@updatedAt", "@map(\"updated_at\")">>],
     [clause |-> "Updated TIMESTAMPTZ NOT NULL",
      attributes |-> <<"@updatedAt", "@map(\"Updated\")">>],
     [clause |-> "last_updated DATE DEFAULT now()",
      attributes |-> <<"@default(now())", "@map(\"last_updated\")">>],
     [clause |-> "updated BOOLEAN DEFAULT false",
      attributes |-> <<"@default(false)">>],
     [clause |-> "external_id UUID UNIQUE DEFAULT gen_random_uuid()",
      attributes |-> <<"@unique", "@default(dbgenerated(\"gen_random_uuid()\"))",
                       "@map(\"external_id\")", "@db.Uuid">>],
     [clause |-> "meta_data JSONB DEFAULT '{}'::jsonb",
      attributes |-> <<"@default(dbgenerated(\"'{}'::jsonb\"))", "@map(\"meta_data\")",
                       "@db.JsonB">>],
     [clause |-> "raw_tags JSON UNIQUE",
      attributes |-> <<"@unique", "@map(\"raw_tags\")", "@db.Json">>],
     [clause |-> "row_key UUID PRIMARY KEY DEFAULT gen_random_uuid()",
      attributes |-> <<"@id @default(dbgenerated(\"gen_random_uuid()\"))",
                       "@map(\"row_key\")", "@db.Uuid">>],
     [clause |-> "updated_on TIMESTAMP UNIQUE PRIMARY KEY DEFAULT now()",
      attributes |-> <<"@id", "@updatedAt", "@map(\"updated_on\")">>],
     [clause |-> "name TEXT",
      attributes |-> << >>]}

\* a table whose second column is the clause
attributeText(clause) ==
    "CREATE TABLE records (\n  id SERIAL PRIMARY KEY,\n  " \o clause \o "\n);"

\* column clauses with an inline REFERENCES, each with the name and the type
\* its forward relation field is to have
RelationClauses ==
    {[clause |-> "author_id INT REFERENCES users(id)", name |-> "author", type |-> "Users"],
     [clause |-> "users_id INT REFERENCES users(id)", name |-> "users", type |-> "Users"],
     [clause |-> "USERS_ID INT REFERENCES users(id)", name |-> "users", type |-> "Users"],
     [clause |-> "id INT REFERENCES user_profiles(id)",
      name |-> "userProfiles", type |-> "UserProfiles"],
     [clause |-> "ID INT REFERENCES users(id)", name |-> "users", type |-> "Users"],
     [clause |-> "created_by INT REFERENCES users(id)", name |-> "createdBy", type |-> "Users"],
     [clause |-> "team_lead_ID INT REFERENCES users(id)", name |-> "teamLead", type |-> "Users"],
     [clause |-> "user_profiles_id INT REFERENCES user_profiles(id)",
      name |-> "userProfiles", type |-> "UserProfiles"],
     [clause |-> "parent INT REFERENCES \"Order_Items\" (\"id\")",
      name |-> "parent", type |-> "OrderItems"],
     [clause |-> "owner_identity INT REFERENCES users(id)",
      name |-> "ownerIdentity", type |-> "Users"],
     [clause |-> "first_id_id INT NOT NULL REFERENCES users(id)",
      name |-> "firstId", type |-> "Users"]}

\* a table whose first column is the clause
relationText(clause) == "CREATE TABLE links (\n  " \o clause \o ",\n  note TEXT\n);"

\* tables with several foreign keys to users: columns whose names end in
\* the same two words, and columns whose endings differ
ReviewsTable ==
    "CREATE TABLE reviews (id SERIAL PRIMARY KEY, "
    \o "author_id INT REFERENCES users(id), "
    \o "first_team_lead_id INT REFERENCES users(id), "
    \o "second_team_lead_id INT REFERENCES users(id))"

AuditsTable ==
    "CREATE TABLE audits (id SERIAL PRIMARY KEY, "
    \o "author_id INT REFERENCES users(id), "
    \o "reviewer_id INT REFERENCES users(id), "
    \o "approver_id INT REFERENCES users(id))"

ManyKeysBatches == {<<UsersTable, ReviewsTable>>, <<UsersTable, AuditsTable>>}

Inputs ==
    {batchText(b) : b \in Batches}
    \cup {typedColumnText(d, m) : d \in DeclaredTypes, m \in ColumnModifiers}
    \cup {serialKeyText(t, k) : t \in SerialTypes, k \in KeyClauses}
    \cup {foreignKeyClauseText(clause) : clause \in ForeignKeyClauses}
    \cup {batchText(batch) : batch \in AlterBatches}
    \cup {selfReferenceText(word.table) : word \in PluralWords}
    \cup {commented.text : commented \in CommentedTexts}
    \cup {batchText(batch) : batch \in OrderBatches}
    \cup {splitText(split.body) : split \in SplitBodies}
    \cup {clauseText(clauses.body) : clauses \in ClauseBodies}
    \cup {nullabilityText(written.clause) : written \in NullabilityClauses}
    \cup {defaultText(written.clause) : written \in DefaultClauses}
    \cup {attributeText(written.clause) : written \in AttributeClauses}
    \cup {relationText(written.clause) : written \in RelationClauses}
    \cup {batchText(batch) : batch \in ManyKeysBatches}
    \cup {"", " \n"}

(***************************************************************************)
(* The converter page (converter.tsx): the editor content and what the     *)
(* convertSQLToPrisma handler leaves.  parseResult, models and             *)
(* relationCounter hold the values of the handler's last call; runs counts *)
(* the calls made on the content.                                          *)
(***************************************************************************)

\* the debounce closure's timer state and the record of the input changes:
\* idle while the handler is driven directly
debounceVars == <<timers, timeout, changes, quiet, calls>>

Init ==
    /\ sqlInput \in Inputs
    /\ parseResult = [tables |-> <<>>, enums |-> <<>>]
    /\ models = <<>>
    /\ relationCounter = <<>>
    /\ prismaOutput = ""
    /\ conversionStatus = "ready"
    /\ tablesConverted = 0
    /\ runs = 0
    /\ timers = {}
    /\ timeout = 0
    /\ changes = 0
    /\ quiet = 0
    /\ calls = <<>>

\* convertSQLToPrisma(sql) on a blank text
convertBlank(sql) ==
    /\ Trim(sql) = ""
    /\ prismaOutput' = ""
    /\ tablesConverted' = 0
    /\ conversionStatus' = "ready"
    /\ UNCHANGED <<parseResult, models, relationCounter>>

\* convertSQLToPrisma(sql) on a text that yields no table and no enum
convertNothingFound(sql) ==
    /\ Trim(sql) # ""
    /\ \E result \in {parseSQL(sql)} :
           /\ Len(result.tables) = 0 /\ Len(result.enums) = 0
           /\ parseResult' = result
    /\ conversionStatus' = "error"
    /\ UNCHANGED <<models, relationCounter, prismaOutput, tablesConverted>>

\* convertSQLToPrisma(sql) on a text that yields a table or an enum
convertSchema(sql) ==
    /\ Trim(sql) # ""
    /\ \E result \in {parseSQL(sql)} :
         \E generated \in {generatePrismaSchema(result, newRelationCounter(relationCounter))} :
           /\ Len(result.tables) # 0 \/ Len(result.enums) # 0
           /\ parseResult' = result
           /\ models' = generated.models
           /\ relationCounter' = generated.counter
           /\ prismaOutput' = generated.text
           /\ tablesConverted' = countBlocks(generated.text, "model")
                                 + countBlocks(generated.text, "enum")
    /\ conversionStatus' = "ready"

\* convertSQLToPrisma on a blank text
ConvertBlank ==
    /\ runs < MaxRuns
    /\ convertBlank(sqlInput)
    /\ runs' = runs + 1
    /\ UNCHANGED <<sqlInput, debounceVars>>

\* convertSQLToPrisma on a text that yields no table and no enum
ConvertNothingFound ==
    /\ runs < MaxRuns
    /\ convertNothingFound(sqlInput)
    /\ runs' = runs + 1
    /\ UNCHANGED <<sqlInput, debounceVars>>

\* convertSQLToPrisma on a text that yields a table or an enum
ConvertSchema ==
    /\ runs < MaxRuns
    /\ convertSchema(sqlInput)
    /\ runs' = runs + 1
    /\ UNCHANGED <<sqlInput, debounceVars>>

Next == ConvertBlank \/ ConvertNothingFound \/ ConvertSchema

Spec == Init /\ [][Next]_vars

(***************************************************************************)
(* The editor: input changes, the debounce timer and the handler           *)
(*                                                                         *)
(* Time advances in ticks of 100 ms.  A timer is a record of the handle    *)
(* setTimeout returned, the argument its callback was created with and the *)
(* ticks elapsed since it was set; the handle of a timer is the number of  *)
(* the input change that set it (the effect of the first render is change  *)
(* 1).  useToast returns one toast function for the life of the page, so   *)
(* useCallback keeps the debounce closure of the first render and every    *)
(* effect run shares its timeout variable.  calls records, for every       *)
(* handler call, its argument and the input state it ran in.               *)
(***************************************************************************)
\* the delay passed to debounce, in ticks
DebounceTicks == 3

\* the number of input changes, the first render included
MaxChanges == 3

EditTexts ==
    {"", "SELECT 1;\n", batchText(<<UsersTable>>), batchText(<<PostsTable, UsersTable>>)}

clearNothing(pending, handle) == pending

\* clearTimeout(timeout): the timer with that handle is cancelled if pending
clearTimeout(pending, handle) == {t \in pending : t.handle # handle}

\* setTimeout(() => func(...args), wait)
setTimeout(pending, handle, args) ==
    pending \cup {[handle |-> handle, args |-> args, elapsed |-> 0]}

\* the closure debounce returns, applied to sql
debouncedConvert(sql, handle) ==
    /\ timers' = setTimeout(clearTimeout(timers, timeout), handle, sql)
    /\ timeout' = handle

\* the handler call made by the callback of timer t
called(t) ==
    [sql |-> t.args, change |-> t.handle, latest |-> changes,
     input |-> sqlInput, quiet |-> quiet]

EditInit ==
    /\ sqlInput \in EditTexts
    /\ parseResult = [tables |-> <<>>, enums |-> <<>>]
    /\ models = <<>>
    /\ relationCounter = <<>>
    /\ prismaOutput = ""
    /\ conversionStatus = "ready"
    /\ tablesConverted = 0
    /\ runs = 0
    /\ timers = setTimeout({}, 1, sqlInput)
    /\ timeout = 1
    /\ changes = 1
    /\ quiet = 0
    /\ calls = <<>>

\* setSqlInput(text) with a new text, and the effect that follows the render
ChangeInput ==
    /\ changes < MaxChanges
    /\ \E text \in EditTexts \ {sqlInput} :
           /\ sqlInput' = text
           /\ debouncedConvert(text, changes + 1)
    /\ changes' = changes + 1
    /\ quiet' = 0
    /\ UNCHANGED <<parseResult, models, relationCounter, prismaOutput,
                   conversionStatus, tablesConverted, runs, calls>>

\* 100 ms pass; a timer that is due runs before more time passes
Tick ==
    /\ timers # {} \/ quiet < DebounceTicks
    /\ \A t \in timers : t.elapsed < DebounceTicks
    /\ timers' = {[t EXCEPT !.elapsed = @ + 1] : t \in timers}
    /\ quiet' = IF quiet < DebounceTicks THEN quiet + 1 ELSE quiet
    /\ UNCHANGED <<sqlInput, parseResult, models, relationCounter, prismaOutput,
                   conversionStatus, tablesConverted, runs, timeout, changes, calls>>

\* the callback of a due timer, around the handler
fires(t) ==
    /\ t.elapsed = DebounceTicks
    /\ timers' = timers \ {t}
    /\ calls' = Append(calls, called(t))
    /\ runs' = runs + 1
    /\ UNCHANGED <<sqlInput, timeout, changes, quiet>>

TimeoutBlank == \E t \in timers : fires(t) /\ convertBlank(t.args)

TimeoutNothingFound == \E t \in timers : fires(t) /\ convertNothingFound(t.args)

TimeoutSchema == \E t \in timers : fires(t) /\ convertSchema(t.args)

EditNext == ChangeInput \/ Tick \/ TimeoutBlank \/ TimeoutNothingFound \/ TimeoutSchema

EditSpec == EditInit /\ [][EditNext]_vars

\* a due callback runs: the step every Timeout action takes on the timers,
\* whatever branch the handler follows
Fired == \E t \in timers : t.elapsed = DebounceTicks /\ timers' = timers \ {t}

\* the event loop runs a due callback, and time does not stop
EditFairSpec == EditSpec /\ WF_vars(Tick) /\ WF_timers(Fired)

(***************************************************************************)
(* Properties of the parser                                                *)
(***************************************************************************)

\* the statements of a text as written: the pieces between its semicolons,
\* without the white space around them
writtenStatements(text) ==
    LET pieces == Split(text, ";") IN {Trim(pieces[k]) : k \in 1..Len(pieces)}

\* the handler has parsed the content of the editor
Parsed == runs >= 1 /\ Trim(sqlInput) # ""

\* statements that give the parser nothing: no table, no enum
UnusableStatements == BrokenTables \cup {AlterPosts, "SELECT 1", ""}

\* C1: parseSQL returns a {tables, enums} result for every text, and a
\* CREATE TABLE statement that fails its shape match removes only itself:
\* every well-formed CREATE TABLE statement of the text has its table in the
\* result, and a text with nothing usable gives two empty lists
C1_BrokenStatementRemovesOnlyItself ==
    Parsed =>
        /\ DOMAIN parseResult = {"tables", "enums"}
        /\ \A n \in DOMAIN WellFormedTables :
              WellFormedTables[n] \in writtenStatements(sqlInput)
              => \E k \in 1..Len(parseResult.tables) : parseResult.tables[k].name = n
        /\ writtenStatements(sqlInput) \subseteq UnusableStatements
              => parseResult = [tables |-> <<>>, enums |-> <<>>]

\* a broken CREATE TABLE statement was parsed next to a well-formed one, in
\* either order, and the well-formed table is the result
C1_Witness ==
    /\ Parsed
    /\ writtenStatements(sqlInput) \cap BrokenTables # {}
    /\ UsersTable \in writtenStatements(sqlInput)
    /\ Len(parseResult.tables) = 1
    /\ parseResult.tables[1].name = "users"
    /\ Len(parseResult.tables[1].columns) = 3


(***************************************************************************)
(* Properties of the relations                                             *)
(***************************************************************************)

\* the relation name a relation field carries: what its @relation attribute
\* holds between the first pair of quotes
relationNameOf(field) ==
    LET attribute == field.attributes[1]
    IN  Slice(attribute, 12, IndexOf(attribute, "\"", 12) - 1)

\* the singular relation fields of a model, by index
forwardFields(model) ==
    {f \in 1..Len(model.fields) :
        isRelationField(model.fields[f]) /\ ~model.fields[f].isArray}

\* the array relation fields of a model, by index
backFields(model) ==
    {f \in 1..Len(model.fields) :
        isRelationField(model.fields[f]) /\ model.fields[f].isArray}

\* the model the schema holds under the derived name of a table
modelOfTable(table) == models[findModel(models, toPascalCase(table.name))]

\* the FOREIGN KEY constraints of table a that name table b, by index
foreignKeysTo(a, b) ==
    {k \in 1..Len(a.constraints) :
        /\ a.constraints[k].type = "FOREIGN KEY"
        /\ a.constraints[k].referencedTable = b.name}

\* the forward fields a model holds for a constraint: typed with the
\* referenced model and listing the constraint's column
forwardFieldsFor(model, constraint) ==
    {f \in forwardFields(model) :
        /\ model.fields[f].type = toPascalCase(constraint.referencedTable)
        /\ Includes(model.fields[f].attributes[1],
                    "fields: [" \o toCamelCase(constraint.columns[1]) \o "]")}

C3_TwoForeignKeysDistinctBackRelations ==
    \A a, b \in 1..Len(parseResult.tables) :
        LET A == parseResult.tables[a]
            B == parseResult.tables[b]
        IN  runs >= 1 /\ a # b /\ Cardinality(foreignKeysTo(A, B)) = 2 =>
                LET target == modelOfTable(B)
                    back   == {g \in backFields(target) :
                                  target.fields[g].type = toPascalCase(A.name)}
                IN  \A g, h \in back :
                        g # h => /\ target.fields[g].name # target.fields[h].name
                                 /\ relationNameOf(target.fields[g])
                                      # relationNameOf(target.fields[h])

(***************************************************************************)
(* Properties of the conversion as a whole                                 *)
(***************************************************************************)

\* C4: determinism: a conversion of a text that was converted before gives
\* the output, the parse result and the models the earlier conversion gave;
\* nothing the earlier run left (the relation counter it ended with) shows
C4_SecondRunSameOutput ==
    [][runs >= 1 /\ sqlInput' = sqlInput
         => /\ prismaOutput' = prismaOutput
            /\ parseResult' = parseResult
            /\ models' = models
            /\ tablesConverted' = tablesConverted]_vars

\* a text with a relation was converted twice: the first run ended with a
\* relation counter that holds an entry
C4_Witness ==
    /\ runs = 2
    /\ conversionStatus = "ready"
    /\ DOMAIN relationCounter # {}
    /\ \E k \in 1..Len(models) : forwardFields(models[k]) # {}

(***************************************************************************)
(* Properties of the fields                                                *)
(***************************************************************************)

\* the field of a column: the models are pushed in the order of the tables
\* and a model's first fields are those of the columns, in their order
fieldOfColumn(t, c) == models[t].fields[c]

\* the content is a table whose column id is declared with a serial type as
\* primary key
SerialKeyInput ==
    \E type \in SerialTypes, key \in KeyClauses : sqlInput = serialKeyText(type, key)

\* C5: the field of a column declared SERIAL or BIGSERIAL PRIMARY KEY carries
\* '@id @default(autoincrement())' and is not optional, whatever the column
\* clause says about NULL and whatever DEFAULT it carries
C5_SerialPrimaryKeyAutoincrement ==
    runs >= 1 =>
        /\ \A t \in 1..Len(parseResult.tables) :
              \A c \in 1..Len(parseResult.tables[t].columns) :
                 LET column == parseResult.tables[t].columns[c]
                 IN  column.isPrimaryKey /\ column.type \in {"SERIAL", "BIGSERIAL"}
                     => /\ fieldOfColumn(t, c).attributes[1]
                             = "@id @default(autoincrement())"
                        /\ ~fieldOfColumn(t, c).isOptional
        /\ SerialKeyInput =>
              /\ Len(models) = 1
              /\ models[1].fields[1].name = "id"
              /\ models[1].fields[1].attributes = <<"@id @default(autoincrement())">>
              /\ ~models[1].fields[1].isOptional
              /\ Includes(prismaOutput, "  id   Int     @id @default(autoincrement())\n")

\* a BIGSERIAL key declared NULL and one that carries a DEFAULT were converted
C5_Witness ==
    /\ runs >= 1
    /\ \/ sqlInput = serialKeyText("BIGSERIAL", " NULL PRIMARY KEY")
       \/ sqlInput = serialKeyText("BigSerial", " PRIMARY KEY DEFAULT 7")
    /\ parseResult.tables[1].columns[1].type = "BIGSERIAL"
    /\ models[1].fields[1].attributes = <<"@id @default(autoincrement())">>

\* the example of the README: users, then posts with author_id INTEGER
\* REFERENCES users(id)
ReadmeInput == batchText(<<UsersTable, PostsTable>>)

\* C6: model names are the PascalCase singular form of the table name: the
\* README example gives a model User with an array back-relation field posts
\* and a model Post with a forward relation field author of type User
C6_SingularModelNames ==
    runs >= 1 /\ sqlInput = ReadmeInput =>
        /\ \E u \in 1..Len(models) :
              /\ models[u].name = "User"
              /\ \E g \in backFields(models[u]) : models[u].fields[g].name = "posts"
        /\ \E p \in 1..Len(models) :
              /\ models[p].name = "Post"
              /\ \E f \in forwardFields(models[p]) :
                    /\ models[p].fields[f].name = "author"
                    /\ models[p].fields[f].type = "User"

\* C7: a column whose declared type is the name of an enum of the text, in
\* any case, is typed with the enum's PascalCase name and not with String,
\* and the enum block lists the values in their declared order: CREATE TYPE
\* status with a column status STATUS gives enum Status {ACTIVE, INACTIVE}
\* and a field of type Status
C7_EnumTypedColumn ==
    runs >= 1 =>
        /\ \A t \in 1..Len(parseResult.tables) :
              \A c \in 1..Len(parseResult.tables[t].columns) :
                 \A e \in 1..Len(parseResult.enums) :
                    toLowerCase(parseResult.enums[e].name)
                        = toLowerCase(parseResult.tables[t].columns[c].type)
                    => fieldOfColumn(t, c).type = toPascalCase(parseResult.enums[e].name)
        /\ {StatusEnum, AccountsTable} \subseteq writtenStatements(sqlInput) =>
              /\ Len(parseResult.enums) >= 1
              /\ \A e \in 1..Len(parseResult.enums) :
                    parseResult.enums[e]
                        = [name |-> "status", values |-> <<"ACTIVE", "INACTIVE">>]
              /\ \E t \in 1..Len(models) :
                    /\ models[t].name = "Accounts"
                    /\ models[t].fields[2].name = "status"
                    /\ models[t].fields[2].type = "Status"
              /\ Includes(prismaOutput, "enum Status {\n  ACTIVE\n  INACTIVE\n}\n\nmodel ")

\* the enum status and the table accounts, whose column status is declared
\* STATUS, were converted
C7_Witness ==
    /\ runs >= 1
    /\ {StatusEnum, AccountsTable} \subseteq writtenStatements(sqlInput)
    /\ Len(parseResult.enums) >= 1
    /\ parseResult.tables[1].columns[2].type = "STATUS"
    /\ parseResult.tables[1].columns[2].isEnum
    /\ models[1].fields[2].type = "Status"

\* the FOREIGN KEY constraints the second pass of the generator handles, as
\* pairs of a table index and a constraint index
HandledForeignKeys ==
    {tk \in UNION {{<<t, k>> : k \in 1..Len(parseResult.tables[t].constraints)} :
                     t \in 1..Len(parseResult.tables)} :
        LET constraint == parseResult.tables[tk[1]].constraints[tk[2]]
        IN  constraint.type = "FOREIGN KEY" /\ constraint.referencedTable # ""}

\* the constraint has its forward field in the model of its table, typed with
\* the referenced model's name, and no model holds a back-relation field
\* with the relation name of that field; the conversion ended without error
ForwardFieldOnly(t, k) ==
    LET table      == parseResult.tables[t]
        constraint == table.constraints[k]
        source     == modelOfTable(table)
    IN  /\ conversionStatus = "ready"
        /\ forwardFieldsFor(source, constraint) # {}
        /\ \A f \in forwardFieldsFor(source, constraint) :
              \A m \in 1..Len(models) :
                 \A g \in backFields(models[m]) :
                    relationNameOf(models[m].fields[g]) # relationNameOf(source.fields[f])

\* C8 as stated: when a FOREIGN KEY constraint names a referenced table that
\* is not among the tables of the IR, generation raises no error, adds no
\* back-relation field to any model for the constraint and still adds the
\* forward relation field to the source model
C8_MissingTableNoBackRelation ==
    runs >= 1 =>
        \A tk \in HandledForeignKeys :
            (\A b \in 1..Len(parseResult.tables) :
                parseResult.tables[b].name
                    # parseResult.tables[tk[1]].constraints[tk[2]].referencedTable)
            => ForwardFieldOnly(tk[1], tk[2])

\* C8 amended: when no model has the derived (PascalCase) name of the table a
\* FOREIGN KEY constraint references, generation raises no error, adds no
\* back-relation field to any model for the constraint and still adds the
\* forward relation field to the source model
C8_MissingModelNoBackRelation ==
    runs >= 1 =>
        \A tk \in HandledForeignKeys :
            (\A m \in 1..Len(models) :
                models[m].name
                    # toPascalCase(parseResult.tables[tk[1]].constraints[tk[2]].referencedTable))
            => ForwardFieldOnly(tk[1], tk[2])

\* accounts was converted next to another table: its constraint on shop_id
\* references shops, which no model stands for, and Accounts holds the
\* forward field shop of type Shops
C8_Witness ==
    /\ runs >= 1
    /\ Len(models) = 2
    /\ \E tk \in HandledForeignKeys :
          LET table      == parseResult.tables[tk[1]]
              constraint == table.constraints[tk[2]]
          IN  /\ constraint.referencedTable = "shops"
              /\ \A m \in 1..Len(models) : models[m].name # "Shops"
              /\ \E f \in forwardFieldsFor(modelOfTable(table), constraint) :
                    /\ modelOfTable(table).fields[f].name = "shop"
                    /\ modelOfTable(table).fields[f].type = "Shops"

\* the forward fields of the given name in the model of the given name
forwardFieldsNamed(modelName, fieldName) ==
    {mf \in UNION {{<<m, f>> : f \in forwardFields(models[m])} : m \in 1..Len(models)} :
        /\ models[mf[1]].name = modelName
        /\ models[mf[1]].fields[mf[2]].name = fieldName}

FamilyTarget(name) ==
    CASE name \in IntegerTypes   -> "Int"
      [] name \in CharacterTypes -> "String"
      [] name \in BooleanTypes   -> "Boolean"
      [] name \in TemporalTypes  -> "DateTime"
      [] name \in NumericTypes   -> "Float"
      [] name = "UUID"           -> "String"
      [] name \in JsonTypes      -> "Json"
      [] OTHER                   -> "String"

\* C10: the type mapping is total and follows the family table for every
\* column that is not an enum: a column declared with a type of a family, with
\* or without type parameters, gets the family's target type, any other type
\* name gets String, and the conversion never ends in an error
C10_TypeMappingFollowsFamilies ==
    runs >= 1 =>
        \A declared \in DeclaredTypes, modifier \in ColumnModifiers :
            sqlInput = typedColumnText(declared, modifier) =>
                /\ conversionStatus = "ready"
                /\ Len(models) = 1
                /\ Len(models[1].fields) = 2
                /\ models[1].fields[2].name = "amount"
                /\ models[1].fields[2].type = FamilyTarget(toUpperCase(declared.base))

(***************************************************************************)
(* Properties of the constraint clauses and of ALTER TABLE                 *)
(***************************************************************************)

\* the FOREIGN KEY constraints of a table, in their order
foreignKeyConstraints(table) ==
    FilterIndices(table.constraints,
                  {k \in 1..Len(table.constraints) :
                     table.constraints[k].type = "FOREIGN KEY"})

\* C11: a top-level clause FOREIGN KEY (c1, .., cn) REFERENCES t(r1, .., rn)
\* of a CREATE TABLE body, with or without a CONSTRAINT name before it, adds
\* to the table exactly one FOREIGN KEY constraint with the columns c1..cn,
\* the referenced table t and the referenced columns r1..rn, and the clause
\* adds no column
C11_ForeignKeyClauseAddsConstraint ==
    runs >= 1 =>
        \A clause \in ForeignKeyClauses :
            sqlInput = foreignKeyClauseText(clause) =>
                /\ Len(parseResult.tables) = 1
                /\ Len(parseResult.tables[1].columns) = 2
                /\ foreignKeyConstraints(parseResult.tables[1])
                     = <<SQLConstraint("FOREIGN KEY", clause.columns, clause.table,
                                       clause.referenced)>>

\* the statements of a batch that are no ALTER TABLE statement, in their order
withoutAlter(batch) ==
    FilterIndices(batch, {k \in 1..Len(batch) :
                            \A form \in AlterForms : batch[k] # form.text})

\* the constraints the ALTER TABLE statements of a batch name for a table,
\* in the order of the statements
alterConstraintsFor(batch, tableName) ==
    LET alters == FilterIndices(batch,
                      {k \in 1..Len(batch) :
                         \E form \in AlterForms :
                            batch[k] = form.text /\ form.table = tableName})
    IN  [k \in 1..Len(alters) |->
            LET form == CHOOSE f \in AlterForms : f.text = alters[k]
            IN  SQLConstraint("FOREIGN KEY", <<form.column>>, form.referenced,
                              <<form.referencedColumn>>)]

\* the tables are those of the batch without its ALTER TABLE statements,
\* the first table of each name with the constraints of the statements that
\* alter it appended
AlteredAsStated(batch) ==
    LET base == parseSQL(batchText(withoutAlter(batch))).tables
    IN  /\ Len(parseResult.tables) = Len(base)
        /\ \A t \in 1..Len(base) :
              /\ parseResult.tables[t].name = base[t].name
              /\ parseResult.tables[t].columns = base[t].columns
              /\ parseResult.tables[t].constraints
                   = base[t].constraints
                     \o (IF \A s \in 1..(t - 1) : base[s].name # base[t].name
                         THEN alterConstraintsFor(batch, base[t].name)
                         ELSE <<>>)

C12_WitnessMissingTable ==
    /\ runs >= 1
    /\ sqlInput = batchText(<<UsersTable, AlterPosts>>)
    /\ parseResult.tables = parseSQL(batchText(<<UsersTable>>)).tables

(***************************************************************************)
(* Properties of the names                                                 *)
(***************************************************************************)

\* a text without its underscores
withoutUnderscores(text) ==
    LET pieces == Split(text, "_") IN Concat([k \in 1..Len(pieces) |-> pieces[k]])

\* the attributes of a field, as a set
attributesOf(field) == {field.attributes[a] : a \in 1..Len(field.attributes)}

\* C13: the nullable column created_at TIMESTAMP DEFAULT CURRENT_TIMESTAMP
\* gives an optional field createdAt of type DateTime with @default(now())
\* and @map("created_at"), and every column whose name holds an underscore
\* gives a field whose name is the column's without the underscores, up to
\* the case of its letters, with a @map attribute naming the column
C13_SnakeCaseColumnMapped ==
    runs >= 1 =>
        /\ UsersTable \in writtenStatements(sqlInput) =>
              \E t \in 1..Len(models) :
                 /\ models[t].name = "Users"
                 /\ models[t].fields[3]
                      = [name       |-> "createdAt",
                         type       |-> "DateTime",
                         attributes |-> <<"@default(now())", "@map(\"created_at\")">>,
                         isOptional |-> TRUE,
                         isArray    |-> FALSE]
        /\ \A t \in 1..Len(parseResult.tables) :
              \A c \in 1..Len(parseResult.tables[t].columns) :
                 LET column == parseResult.tables[t].columns[c]
                     field  == fieldOfColumn(t, c)
                 IN  Includes(column.name, "_") =>
                        /\ ~Includes(field.name, "_")
                        /\ toLowerCase(field.name)
                             = toLowerCase(withoutUnderscores(column.name))
                        /\ CharAt(field.name, 1) \notin DOMAIN LowerOf
                        /\ ("@map(\"" \o column.name \o "\")") \in attributesOf(field)

\* users was converted: its third field is createdAt, mapped to created_at
C13_Witness ==
    /\ runs >= 1
    /\ UsersTable \in writtenStatements(sqlInput)
    /\ parseResult.tables[1].columns[3].name = "created_at"
    /\ parseResult.tables[1].columns[3].nullable
    /\ models[1].fields[3].name = "createdAt"
    /\ "@map(\"created_at\")" \in attributesOf(models[1].fields[3])

C15_CommentsDiscarded ==
    runs >= 1 =>
        \A commented \in CommentedTexts :
            sqlInput = commented.text => parseResult = parseSQL(commented.bare)

\* the texts whose block comments hold no line-comment marker do parse to
\* the result of their comment-free text
C15_CommentsWithoutMarkerInside ==
    /\ runs >= 1
    /\ sqlInput = "/* CREATE TABLE legacy (id INT); */\n" \o PostsTable \o ";\n"
    /\ Len(parseResult.tables) = 1
    /\ parseResult.tables[1].name = "posts"

\* ---------------------------------------------------------------------
\* Properties of the generator as a function of the parse result
\* ---------------------------------------------------------------------

C17_MapDirectiveWhenNamesDiffer ==
    runs >= 1 /\ conversionStatus = "ready" /\ Trim(sqlInput) # "" =>
        \A k \in 1..Len(models) :
            models[k].attributes =
                IF parseResult.tables[k].name # models[k].name
                THEN <<"@@map(\"" \o parseResult.tables[k].name \o "\")">>
                ELSE << >>

\* a table whose name has an underscore, or an upper-case letter after the
\* first, does get the directive with its name
C17_MapDirectiveOnSnakeCaseTable ==
    /\ runs >= 1
    /\ \E k \in 1..Len(models) :
           /\ parseResult.tables[k].name = "order_items"
           /\ models[k].attributes = <<"@@map(\"order_items\")">>

\* ---------------------------------------------------------------------
\* Properties of the order of the statements
\* ---------------------------------------------------------------------

\* the statements of a batch with the CREATE TYPE statements first and the
\* ALTER TABLE statements last, each kind in the order of the batch
definitionsFirst(batch) ==
    LET alters == {k \in 1..Len(batch) :
                     StartsWith(toUpperCase(batch[k]), "ALTER TABLE")}
        types  == {k \in 1..Len(batch) : batch[k] = StatusEnum}
    IN  FilterIndices(batch, types)
        \o FilterIndices(batch, (1..Len(batch)) \ (types \cup alters))
        \o FilterIndices(batch, alters)

\* every column whose type is the name of a parsed enum, whatever the case,
\* is marked isEnum
EnumColumnsMarked ==
    \A t \in 1..Len(parseResult.tables) :
        \A c \in 1..Len(parseResult.tables[t].columns) :
            (\E e \in 1..Len(parseResult.enums) :
                 toLowerCase(parseResult.tables[t].columns[c].type)
                     = toLowerCase(parseResult.enums[e].name))
                => parseResult.tables[t].columns[c].isEnum

\* C18: the parse result does not depend on where the CREATE TYPE and the
\* ALTER TABLE statements stand among the CREATE TABLE statements: it is
\* the result of the text with the enums first and the ALTER TABLE
\* statements last, a column of an enum defined later is marked isEnum, and
\* an ALTER TABLE statement written before its table is attached to it
C18_StatementOrderIndependent ==
    runs >= 1 =>
        \A batch \in Batches \cup AlterBatches \cup OrderBatches :
            sqlInput = batchText(batch) =>
                /\ parseResult = parseSQL(batchText(definitionsFirst(batch)))
                /\ EnumColumnsMarked
                /\ AlteredAsStated(batch)

\* the ALTER TABLE statement stands first and the enum last: accounts has
\* its status column marked and the constraint of the statement appended
C18_Witness ==
    /\ runs >= 1
    /\ sqlInput = batchText(<<"ALTER TABLE accounts ADD FOREIGN KEY (status) REFERENCES users (id)",
                              AccountsTable, StatusEnum>>)
    /\ Len(parseResult.tables) = 1
    /\ parseResult.tables[1].columns[2].isEnum
    /\ Len(parseResult.tables[1].constraints) = 3
    /\ parseResult.tables[1].constraints[3]
         = SQLConstraint("FOREIGN KEY", <<"status">>, "users", <<"id">>)

\* ---------------------------------------------------------------------
\* Properties of the order of the tables
\* ---------------------------------------------------------------------

\* the relation fields the models of a name hold
relationFieldsNamed(mods, name) ==
    UNION {{mods[k].fields[f] : f \in {g \in 1..Len(mods[k].fields) :
                                         isRelationField(mods[k].fields[g])}} :
             k \in {m \in 1..Len(mods) : mods[m].name = name}}

\* the models the generator makes of the parsed tables written in an order
modelsInOrder(order) ==
    convertTablesToModels(order, convertEnumsToPrismaEnums(parseResult.enums),
                          newRelationCounter(relationCounter)).models

\* every FOREIGN KEY constraint whose referenced table has a model has a
\* back-relation field in that model, typed with the model of its table
BackRelationsAttached ==
    \A t \in 1..Len(parseResult.tables) :
        \A c \in 1..Len(parseResult.tables[t].constraints) :
            \A referenced \in {findModel(models,
                                   toPascalCase(parseResult.tables[t].constraints[c].referencedTable))} :
                /\ parseResult.tables[t].constraints[c].type = "FOREIGN KEY"
                /\ parseResult.tables[t].constraints[c].referencedTable # ""
                /\ referenced # 0
                => \E f \in backFields(models[referenced]) :
                       models[referenced].fields[f].type
                           = toPascalCase(parseResult.tables[t].name)

C20_SplitAtDepthZeroCommas ==
    runs >= 1 =>
        \A split \in SplitBodies :
            sqlInput = splitText(split.body) =>
                /\ splitByCommas(split.body) = split.parts
                /\ Len(parseResult.tables) = 1
                /\ \A parsed \in {parseParts(split.parts, 1, <<>>, <<>>, <<>>)} :
                       /\ parseResult.tables[1].columns = parsed.columns
                       /\ parseResult.tables[1].constraints = parsed.constraints

\* a body with commas at depth one and two was parsed: its three clauses
\* gave three columns
C20_Witness ==
    /\ runs >= 1
    /\ sqlInput = splitText("code TEXT CHECK (length(coalesce(code, 'x,y')) > 0), total NUMERIC(12, 2), id INT")
    /\ Len(parseResult.tables) = 1
    /\ Len(parseResult.tables[1].columns) = 3
    /\ parseResult.tables[1].columns[2].name = "total"
    /\ parseResult.tables[1].columns[3].name = "id"

\* ---------------------------------------------------------------------
\* Properties of the columns of a table
\* ---------------------------------------------------------------------

\* the names of the columns of a parsed table, in their order
columnNames(table) == [c \in 1..Len(table.columns) |-> table.columns[c].name]

\* C21: the columns of a parsed table are its column clauses, one column
\* per clause in the order of declaration: a table-level PRIMARY KEY,
\* FOREIGN KEY, UNIQUE or CHECK clause gives no column, and a clause whose
\* column name holds a constraint keyword (unique_code) is a column
C21_ColumnsAreColumnClauses ==
    runs >= 1 =>
        \A clauses \in ClauseBodies :
            sqlInput = clauseText(clauses.body) =>
                /\ Len(parseResult.tables) = 1
                /\ columnNames(parseResult.tables[1]) = clauses.columns

\* the columns named after a constraint keyword are columns, in the order
\* of their declaration
C21_KeywordInColumnName ==
    /\ runs >= 1
    /\ sqlInput = clauseText("id INT, unique_code TEXT, checked_at TIMESTAMP, primary_key_note TEXT")
    /\ columnNames(parseResult.tables[1])
         = <<"id", "unique_code", "checked_at", "primary_key_note">>

\* the columns of the parse result, as pairs of table and column index
parsedColumns ==
    UNION {{<<t, c>> : c \in 1..Len(parseResult.tables[t].columns)} :
             t \in 1..Len(parseResult.tables)}

\* the column at such a pair
columnAt(tc) == parseResult.tables[tc[1]].columns[tc[2]]

\* C22: every column of every parse result: a primary key is unique and not
\* nullable, the type is in upper case unless the column is of an enum, and
\* the column is nullable exactly when its clause holds neither NOT NULL nor
\* PRIMARY KEY, in any case of the letters
C22_ColumnFlagsConsistent ==
    runs >= 1 =>
        /\ \A tc \in parsedColumns :
              /\ columnAt(tc).isPrimaryKey
                    => columnAt(tc).isUnique /\ ~columnAt(tc).nullable
              /\ ~columnAt(tc).isEnum
                    => \A i \in 1..Len(columnAt(tc).type) :
                          SubSeq(columnAt(tc).type, i, i) \notin DOMAIN UpperOf
        /\ \A written \in NullabilityClauses :
              sqlInput = nullabilityText(written.clause) =>
                  /\ Len(parseResult.tables) = 1
                  /\ Len(parseResult.tables[1].columns) = 2
                  /\ ~parseResult.tables[1].columns[1].nullable
                  /\ parseResult.tables[1].columns[2].nullable = written.nullable

\* a column written in lower case with not null was parsed: its type is
\* TEXT and it is not nullable
C22_Witness ==
    /\ runs >= 1
    /\ sqlInput = nullabilityText("note text not null")
    /\ parseResult.tables[1].columns[2].type = "TEXT"
    /\ ~parseResult.tables[1].columns[2].nullable
    /\ ~parseResult.tables[1].columns[2].isPrimaryKey
    /\ parseResult.tables[1].columns[1].isPrimaryKey
    /\ parseResult.tables[1].columns[1].isUnique

\* ---------------------------------------------------------------------
\* Properties of the attributes of a scalar field
\* ---------------------------------------------------------------------

\* the @default attributes of a field, in their order
defaultAttributesOf(field) ==
    FilterIndices(field.attributes,
                  {a \in 1..Len(field.attributes) :
                     StartsWith(field.attributes[a], "@default(")})

attributeRank(attribute) ==
    IF StartsWith(attribute, "@id") THEN 1
    ELSE IF attribute = "@unique" THEN 2
    ELSE IF StartsWith(attribute, "@default(") THEN 3
    ELSE IF attribute = "@updatedAt" THEN 4
    ELSE IF StartsWith(attribute, "@map(") THEN 5
    ELSE IF attribute \in {"@db.Uuid", "@db.JsonB", "@db.Json"} THEN 6
    ELSE 0

\* the attributes of a field are of the six kinds, in the order of their ranks
AttributesInOrder(field) ==
    /\ \A a \in 1..Len(field.attributes) : attributeRank(field.attributes[a]) # 0
    /\ \A a, b \in 1..Len(field.attributes) :
          a < b => attributeRank(field.attributes[a]) < attributeRank(field.attributes[b])

\* which attributes the field of a column carries
AttributesAsColumn(column, field) ==
    /\ (\E a \in attributesOf(field) : attributeRank(a) = 1) <=> column.isPrimaryKey
    /\ "@unique" \in attributesOf(field) <=> column.isUnique /\ ~column.isPrimaryKey
    /\ (\E a \in attributesOf(field) : attributeRank(a) = 3)
          <=> column.defaultValue # "" /\ ~column.isPrimaryKey
    /\ "@updatedAt" \in attributesOf(field)
          <=> /\ column.type \in {"TIMESTAMP", "TIMESTAMPTZ"}
              /\ Includes(toLowerCase(column.name), "updated")
    /\ "@db.Uuid" \in attributesOf(field) <=> column.type = "UUID"
    /\ "@db.JsonB" \in attributesOf(field) <=> column.type = "JSONB"
    /\ "@db.Json" \in attributesOf(field) <=> column.type = "JSON"

\* C24: the attributes of every scalar field are in one order: the
\* primary-key marker, @unique (when unique and no primary key), @default,
\* @updatedAt (with the others, when the type is a timestamp type and the
\* column name holds updated), @map, and the database-native type
C24_AttributesInFixedOrder ==
    runs >= 1 /\ conversionStatus = "ready" /\ Trim(sqlInput) # "" =>
        /\ \A tc \in parsedColumns :
              /\ AttributesInOrder(fieldOfColumn(tc[1], tc[2]))
              /\ AttributesAsColumn(columnAt(tc), fieldOfColumn(tc[1], tc[2]))
        /\ \A written \in AttributeClauses :
              sqlInput = attributeText(written.clause) =>
                  /\ Len(models) = 1
                  /\ models[1].fields[2].attributes = written.attributes

\* a unique timestamp column named updated_at with a default was converted:
\* its field carries @unique, @default, @updatedAt and @map, in this order
C24_Witness ==
    /\ runs >= 1
    /\ sqlInput = attributeText("updated_at TIMESTAMP UNIQUE DEFAULT CURRENT_TIMESTAMP")
    /\ parseResult.tables[1].columns[2].isUnique
    /\ models[1].fields[2].attributes
         = <<"@unique", "@default(now())", "@updatedAt", "@map(\"updated_at\")">>

\* ---------------------------------------------------------------------
\* Properties of the names of the relation fields
\* ---------------------------------------------------------------------

RECURSIVE relationKindsFrom(_, _, _)
relationKindsFrom(k, t, c) ==
    IF t > Len(parseResult.tables) THEN << >>
    ELSE IF c > Len(parseResult.tables[t].constraints) THEN relationKindsFrom(k, t + 1, 1)
    ELSE (IF /\ parseResult.tables[t].constraints[c].type = "FOREIGN KEY"
             /\ parseResult.tables[t].constraints[c].referencedTable # ""
          THEN (IF findModel(models, toPascalCase(parseResult.tables[t].name)) = k
                THEN <<[isArray |-> FALSE,
                        type    |-> toPascalCase(
                                      parseResult.tables[t].constraints[c].referencedTable)]>>
                ELSE << >>)
               \o (IF findModel(models, toPascalCase(
                                   parseResult.tables[t].constraints[c].referencedTable)) = k
                   THEN <<[isArray |-> TRUE,
                           type    |-> toPascalCase(parseResult.tables[t].name)]>>
                   ELSE << >>)
          ELSE << >>)
         \o relationKindsFrom(k, t, c + 1)

\* the fields of model k: those of the columns of its table, in their order
\* and none of them a relation field, then the relation fields in the order
\* of the constraints
FieldsInOrder(k) ==
    /\ Len(models[k].fields) >= Len(parseResult.tables[k].columns)
    /\ \A c \in 1..Len(parseResult.tables[k].columns) :
          /\ ~isRelationField(models[k].fields[c])
          /\ models[k].fields[c].name = toCamelCase(parseResult.tables[k].columns[c].name)
    /\ \A f \in (Len(parseResult.tables[k].columns) + 1)..Len(models[k].fields) :
          isRelationField(models[k].fields[f])
    /\ [r \in 1..(Len(models[k].fields) - Len(parseResult.tables[k].columns)) |->
           [isArray |-> models[k].fields[Len(parseResult.tables[k].columns) + r].isArray,
            type    |-> models[k].fields[Len(parseResult.tables[k].columns) + r].type]]
         = relationKindsFrom(k, 1, 1)

\* the line of field f of model k: the name and the type annotation, padded
\* to the longest of the model, and the attributes
lineOf(k, f) ==
    "\n" \o formatField(models[k].fields[f],
                        Max({Len(models[k].fields[g].name) :
                               g \in 1..Len(models[k].fields)}),
                        Max({Len(typeAnnotation(models[k].fields[g])) :
                               g \in 1..Len(models[k].fields)}))

\* where the line of field f of model k starts in the text of the model (0
\* when it is not there): a line written for several fields is looked for
\* as many times as fields up to f have it
lineAt(k, f) ==
    LET places == SortedSeq(Occurrences(formatModel(models[k]), lineOf(k, f)))
        nth    == Cardinality({g \in 1..f : lineOf(k, g) = lineOf(k, f)})
    IN  IF nth <= Len(places) THEN places[nth] ELSE 0

\* the text of model k is in the output, and in it the lines of the fields
\* follow one another in the order of the fields, the lines of the relation
\* fields after the line that announces them
TextInOrder(k) ==
    /\ Includes(prismaOutput, formatModel(models[k]))
    /\ \A f \in 1..Len(models[k].fields) : lineAt(k, f) # 0
    /\ \A f, g \in 1..Len(models[k].fields) :
          f < g => lineAt(k, f) <= lineAt(k, g)
    /\ \A f \in 1..Len(models[k].fields) :
          \A marker \in {IndexOf(formatModel(models[k]), "\n  // Relations\n", 1)} :
              IF isRelationField(models[k].fields[f])
              THEN marker # 0 /\ marker < lineAt(k, f)
              ELSE marker = 0 \/ lineAt(k, f) < marker

CallsOnLatestInput ==
    \A i \in DOMAIN calls :
        /\ calls[i].change = calls[i].latest
        /\ calls[i].sql = calls[i].input
        /\ calls[i].quiet = DebounceTicks

\* no change is converted twice
CalledAtMostOnce ==
    \A i, j \in DOMAIN calls : calls[i].change = calls[j].change => i = j

converted(n) == \E i \in DOMAIN calls : calls[i].change = n

\* once DebounceTicks ticks have passed since the latest change, its
\* conversion has run or its callback is due
DueWhenQuiet ==
    quiet = DebounceTicks =>
        \/ converted(changes)
        \/ \E t \in timers : t.handle = changes /\ t.elapsed = DebounceTicks

\* C27: after a sequence of input changes and 300 ms without a change the
\* handler runs once, on the latest text; a change superseded within the
\* 300 ms is never converted.  Every call is for the latest change and its
\* text after three quiet ticks, no change is converted twice, and a change
\* is converted unless another change replaces it first.
C27_DebounceLatestInputWins ==
    /\ [](CallsOnLatestInput /\ CalledAtMostOnce /\ DueWhenQuiet)
    /\ \A n \in 1..MaxChanges :
           (changes = n) ~> (changes > n \/ converted(n))

\* two changes were superseded and the third text alone was converted
C27_Witness ==
    /\ changes = 3
    /\ Len(calls) = 1
    /\ calls[1].change = 3
    /\ calls[1].sql = sqlInput
    /\ timers = {}


(***************************************************************************)
(* C28  The pane shows the result of the input converted last.             *)
(***************************************************************************)
\* C28: after every convertSQLToPrisma call the displayed output and the
\* count of converted items are those of the text just converted: the
\* schema generated from it and its number of models and enums, and
\* nothing when the text is blank or yields no table and no enum.
C28_OutputOfLastConversion ==
    calls # <<>> =>
        \A sql \in {calls[Len(calls)].sql} :
          \A result \in {parseSQL(sql)} :
            IF Trim(sql) = "" \/ (Len(result.tables) = 0 /\ Len(result.enums) = 0)
            THEN prismaOutput = "" /\ tablesConverted = 0
            ELSE \A generated \in {generatePrismaSchema(result, newRelationCounter(relationCounter))} :
                   /\ prismaOutput = generated.text
                   /\ tablesConverted = countBlocks(generated.text, "model")
                                        + countBlocks(generated.text, "enum")


(***************************************************************************)
(* C29  Field names of a model are pairwise distinct.                      *)
(***************************************************************************)
fieldsNamed(model, name) ==
    {f \in 1..Len(model.fields) : model.fields[f].name = name}

\* C29: in every generated model no two fields, scalar, forward relation
\* or back-relation, have the same name.
C29_FieldNamesDistinct ==
    (runs >= 1 /\ conversionStatus = "ready") =>
        \A k \in DOMAIN models :
            \A f \in 1..Len(models[k].fields) :
                fieldsNamed(models[k], models[k].fields[f].name) = {f}

\* the tickets table after the users table: its model holds the scalar
\* field and the forward relation field of created_by under one name
C29_ScalarAndRelationShareName ==
    /\ runs >= 1
    /\ sqlInput = batchText(<<UsersTable, TicketsTable>>)
    /\ Len(models) = 2
    /\ \E f \in forwardFields(models[2]) :
           /\ models[2].fields[f].name = "createdBy"
           /\ fieldsNamed(models[2], "createdBy") = {2, f}


(***************************************************************************)
(* C30  Relation names are unique within one generated schema.             *)
(***************************************************************************)
\* the forward (isArray FALSE) or back (isArray TRUE) relation fields of
\* the schema that carry relation name name, as <<model, field>> places
relationFieldsCarrying(name, isArray) ==
    {place \in UNION {{<<k, f>> : f \in 1..Len(models[k].fields)} : k \in DOMAIN models} :
        \E field \in {models[place[1]].fields[place[2]]} :
            /\ isRelationField(field)
            /\ field.isArray = isArray
            /\ relationNameOf(field) = name}

relationNamesUsed ==
    UNION {{relationNameOf(models[k].fields[f]) :
               f \in {g \in 1..Len(models[k].fields) : isRelationField(models[k].fields[g])}} :
           k \in DOMAIN models}

\* C30: within one generatePrismaSchema call no two FOREIGN KEY constraints
\* receive the same relation name: every relation name of the output is on
\* at most one forward field and at most one back-relation field.
C30_RelationNamesUnique ==
    (runs >= 1 /\ conversionStatus = "ready") =>
        \A name \in relationNamesUsed :
            /\ Cardinality(relationFieldsCarrying(name, FALSE)) <= 1
            /\ Cardinality(relationFieldsCarrying(name, TRUE)) <= 1

\* three foreign keys from reviews to users: the second and the third get
\* one relation name
C30_ThirdKeySharesName ==
    /\ runs >= 1
    /\ sqlInput = batchText(<<UsersTable, ReviewsTable>>)
    /\ Len(models) = 2
    /\ relationNamesUsed = {"ReviewsToUsers", "ReviewsToUsers_TeamLead"}
    /\ Cardinality(relationFieldsCarrying("ReviewsToUsers_TeamLead", FALSE)) = 2
    /\ Cardinality(relationFieldsCarrying("ReviewsToUsers_TeamLead", TRUE)) = 2

\* three foreign keys from audits to users whose columns end differently:
\* three relation names, each on one forward and one back-relation field
C30_DistinctContextsDistinctNames ==
    /\ runs >= 1
    /\ sqlInput = batchText(<<UsersTable, AuditsTable>>)
    /\ relationNamesUsed = {"AuditsToUsers", "AuditsToUsers_Reviewer", "AuditsToUsers_Approver"}
    /\ \A name \in relationNamesUsed :
           /\ Cardinality(relationFieldsCarrying(name, FALSE)) = 1
           /\ Cardinality(relationFieldsCarrying(name, TRUE)) = 1
====
